---- MODULE Spec2Model ----
(***************************************************************************)
(* A model of the PHPMD language server (lsp-server/src/main.rs): the      *)
(* document store, the result cache, the diagnostic pull handler and the   *)
(* semaphore-bounded analyzer run.                                         *)
(*                                                                         *)
(* Granularity.  tower-lsp polls every handler future from the one task    *)
(* that drives Server::serve, so a handler runs without interruption from  *)
(* one .await that really suspends to the next.  The suspension points of  *)
(* diagnostic() are process_semaphore.acquire().await (main.rs:334) and    *)
(* timeout(.., child.wait_with_output()).await (main.rs:454); every other  *)
(* handler changes the state in one step.  Each action below is one such   *)
(* uninterrupted stretch of a handler.                                     *)
(*                                                                         *)
(* Abstractions.  A document's text is a small integer; the LZ4 round trip *)
(* is lossless, so a CompressedDocument keeps the text and the SHA-256     *)
(* digest computed when it was stored.  The analyzer's output, extracted,  *)
(* parsed and converted, is recorded by what it was computed from: the     *)
(* text written to the temp file and the ruleset argument.                 *)
(***************************************************************************)
EXTENDS Integers, Sequences, FiniteSets, TLC

\* ------------------------------------------------------------- bounds
NumUris == 1
NumContents == 2
NumTasks == 6
MaxActive == 2
MaxTempFiles == 5
NumSessionUris == 2
MaxSessionActive == 1
MaxOutputLen == 6
MaxFiles == 2
MaxViolations == 2
MaxLine == 13
NumThreads == 2

\* ---------------------------------------------------------- constants
\* Semaphore::new(4)
PoolSize == 4
\* String::from("unknown"): no SHA-256 digest equals it
UnknownChecksum == 0
\* Option::None for a result identifier
NoneId == 0
\* fs::read_to_string(path) failed
NoFile == 0
\* the bytes of analyzer output shown in the log
PreviewLimit == 500
\* the bytes of a source line shown in the log
LineLogLimit == 80

Uris == 1..NumUris
Contents == 1..NumContents
Tasks == 1..NumTasks

\* format!("{:x}", Sha256(content)): injective on the texts of the model
Checksum(c) == 100 + c

Checksums == {Checksum(c) : c \in Contents}

\* compress_document: the stored payload and the digest of the text
compress_document(c) == [content |-> c, checksum |-> Checksum(c)]

\* decompress_document: the text of a stored payload
decompress_document(doc) == doc.content

\* fault variant: an insert that keeps the value already stored for the key
MapInsert_KeepOld(m, k, v) ==
    [x \in DOMAIN m \cup {k} |-> IF x \in DOMAIN m THEN m[x] ELSE v]

\* fault variant: a removal that clears the whole map
MapRemove_All(m, k) == [x \in {} |-> 0]

\* HashMap::insert and HashMap::remove
MapInsert(m, k, v) == [x \in DOMAIN m \cup {k} |-> IF x = k THEN v ELSE m[x]]

MapRemove(m, k) == [x \in DOMAIN m \ {k} |-> m[x]]

EmptyMap == [x \in {} |-> 0]

VARIABLES
    open_docs,          \* HashMap<Url, CompressedDocument>
    results_cache,      \* HashMap<Url, CachedResults>
    rulesets,           \* Option<String>: "none", "fallback", "xml", "custom"
    phpmd_path,         \* Option<String>: "none" or "cached"
    process_semaphore,  \* [permits, waiters]: free permits and the FIFO wait queue
    task,               \* the diagnostic() calls in progress: where each is suspended
                        \* (pc), its uri, its snapshot of the document, the ruleset
                        \* argument of its subprocess, whether it came without
                        \* previousResultId (noprev), and the lock guards alive at
                        \* its suspension point (held)
    live_children,      \* analyzer subprocesses spawned and neither exited nor killed
    temp_files,         \* phpmd-<uuid>.php files that exist in the temp directory
    reply,              \* the report returned by the step just taken, if it returned
                        \* one, and whether the step's lookup evicted a cache entry
    served,             \* history, per uri: the last Full report with a result id
                        \* returned, since the last content change or invalidation,
                        \* to a call without previousResultId that was answered for
                        \* the stored content
    invoked,            \* history, per uri: whether the analyzer was spawned "once"
                        \* or "again" for the stored content since the last content
                        \* change, close or invalidation (no entry: not spawned)
    call,               \* a function of the output pipeline applied on its own:
                        \* its name (op), its arguments and, once it has returned,
                        \* its result
    thread              \* the handlers' synchronous code on the runtime's worker
                        \* threads: the lock operations each has still to make
                        \* (ops) and the guards it holds (held)

vars == <<open_docs, results_cache, rulesets, phpmd_path, process_semaphore,
          task, live_children, temp_files, reply, served, invoked, call, thread>>

\* ------------------------------------------------------------- values
FallbackRulesets == "fallback"

NoItems == [src |-> 0, rules |-> "none", text |-> 0]

\* run_phpmd's result for a subprocess that exited: extract_json_from_output,
\* parse_phpmd_output and convert_violation_to_diagnostic applied to the output
\* the analyzer printed for the temp file's text c under the ruleset argument;
\* text is the document whose lines the conversion searched for property
\* declarations and measured for the character columns
Analyze(c, rules, text) == [src |-> c, rules |-> rules, text |-> text]

NoCall == [op |-> "none"]

IdleTask == [pc |-> "idle", uri |-> 0, doc |-> [content |-> 0, checksum |-> 0],
             rules |-> "none", noprev |-> FALSE, held |-> {}]

NoReply == [kind |-> "none", uri |-> 0, prev |-> NoneId, result_id |-> NoneId,
            items |-> NoItems, via |-> "none", evicted |-> FALSE]

\* DocumentDiagnosticReport::Unchanged
UnchangedReport(u, prev, rid) ==
    [kind |-> "Unchanged", uri |-> u, prev |-> prev, result_id |-> rid,
     items |-> NoItems, via |-> "unchanged", evicted |-> FALSE]

\* DocumentDiagnosticReport::Full
FullReport(u, prev, rid, items, via) ==
    [kind |-> "Full", uri |-> u, prev |-> prev, result_id |-> rid,
     items |-> items, via |-> via, evicted |-> FALSE]

\* the fallback at the end of diagnostic(): Full, no result id, no items
EmptyReport(u, via) == FullReport(u, NoneId, NoneId, NoItems, via)

\* ---------------------------------------------------------- semaphore
\* fault variant: acquire() that never makes the caller wait
SemCanAcquire_Unbounded(sem) == TRUE

\* fault variant: a permit that is forgotten instead of dropped
SemRelease_Leak(sem) == [permits |-> sem.permits, waiters |-> sem.waiters, woken |-> {}]

\* fault variant: an unfair semaphore that hands the permit to the newest waiter
SemRelease_Lifo(sem) ==
    IF sem.waiters = <<>>
    THEN [permits |-> sem.permits + 1, waiters |-> sem.waiters, woken |-> {}]
    ELSE [permits |-> sem.permits,
          waiters |-> SubSeq(sem.waiters, 1, Len(sem.waiters) - 1),
          woken |-> {sem.waiters[Len(sem.waiters)]}]

\* tokio::sync::Semaphore: acquire() takes a permit when one is free
SemCanAcquire(sem) == sem.permits > 0

SemAcquire(sem) == [sem EXCEPT !.permits = @ - 1]

\* acquire() with no free permit: the caller joins the tail of the wait queue
SemEnqueue(sem, t) == [sem EXCEPT !.waiters = Append(@, t)]

\* dropping a SemaphorePermit: the permit goes to the waiter at the head of the
\* queue, which is woken, or back to the pool when nobody waits
SemRelease(sem) ==
    IF sem.waiters = <<>>
    THEN [permits |-> sem.permits + 1, waiters |-> sem.waiters, woken |-> {}]
    ELSE [permits |-> sem.permits, waiters |-> Tail(sem.waiters),
          woken |-> {Head(sem.waiters)}]

\* ------------------------------------------------------------ helpers
\* the task table after task t returned from run_phpmd and its permit was dropped
TasksAfterReturn(t, rel) ==
    [x \in Tasks |->
        IF x = t THEN IdleTask
        ELSE IF x \in rel.woken THEN [task[x] EXCEPT !.pc = "granted"]
        ELSE task[x]]

\* wait_with_output() returned: the subprocess has exited and is reaped
Reaped(n) == n - 1

\* fault variant: a Command built without kill_on_drop(true)
KillOnDrop_Unset(n) == n

\* the Child is dropped with kill_on_drop(true): the subprocess is killed
KillOnDrop(n) == n - 1

\* run_phpmd: should_discover
ShouldDiscover(rs) == rs = "none" \/ rs = FallbackRulesets

\* discover_rulesets: a valid config file in the project root, else the fallback
discover_rulesets(found) == IF found THEN "xml" ELSE FallbackRulesets

\* the ruleset argument added to the command line
RulesetArg(rs) == IF rs = "none" THEN FallbackRulesets ELSE rs

\* ------------------------------------------------------- cache lookup
\* checksum of the stored document, if any
CurrentChecksum(docs, u) ==
    IF u \in DOMAIN docs THEN docs[u].checksum ELSE UnknownChecksum

\* the text that determine_diagnostic_range and convert_violation_to_diagnostic
\* read for u: the document stored when the output is converted, if any
RangeText(docs, u) ==
    IF u \in DOMAIN docs THEN decompress_document(docs[u]) ELSE NoFile

\* fault variant: a lookup that never answers from the cache
Lookup_NeverHit(u, prev) ==
    IF u \notin DOMAIN results_cache
    THEN [kind |-> "Miss", evict |-> FALSE]
    ELSE IF u \in DOMAIN open_docs
         THEN IF results_cache[u].content_checksum # open_docs[u].checksum
              THEN [kind |-> "Miss", evict |-> TRUE]
              ELSE [kind |-> "Miss", evict |-> FALSE]
         ELSE [kind |-> "Miss", evict |-> TRUE]

\* fault variant: a lookup that answers Unchanged for any previousResultId
Lookup_AnyPrev(u, prev) ==
    IF u \notin DOMAIN results_cache
    THEN [kind |-> "Miss", evict |-> FALSE]
    ELSE IF u \in DOMAIN open_docs
         THEN IF results_cache[u].content_checksum # open_docs[u].checksum
              THEN [kind |-> "Miss", evict |-> TRUE]
              ELSE IF prev # NoneId
                   THEN [kind |-> "Unchanged", evict |-> FALSE]
                   ELSE [kind |-> "Hit", evict |-> FALSE]
         ELSE [kind |-> "Miss", evict |-> TRUE]

\* fault variant: a lookup that leaves the entry of a closed document in place
Lookup_KeepStale(u, prev) ==
    IF u \notin DOMAIN results_cache
    THEN [kind |-> "Miss", evict |-> FALSE]
    ELSE IF u \in DOMAIN open_docs
         THEN IF results_cache[u].content_checksum # open_docs[u].checksum
              THEN [kind |-> "Miss", evict |-> TRUE]
              ELSE IF prev # NoneId /\ prev = results_cache[u].result_id
                   THEN [kind |-> "Unchanged", evict |-> FALSE]
                   ELSE [kind |-> "Hit", evict |-> FALSE]
         ELSE [kind |-> "Miss", evict |-> FALSE]

\* the lookup at the head of diagnostic(): Unchanged, Hit or Miss, and whether
\* a stale entry is evicted
Lookup(u, prev) ==
    IF u \notin DOMAIN results_cache
    THEN [kind |-> "Miss", evict |-> FALSE]
    ELSE IF u \in DOMAIN open_docs
         THEN IF results_cache[u].content_checksum # open_docs[u].checksum
              THEN [kind |-> "Miss", evict |-> TRUE]
              ELSE IF prev # NoneId /\ prev = results_cache[u].result_id
                   THEN [kind |-> "Unchanged", evict |-> FALSE]
                   ELSE [kind |-> "Hit", evict |-> FALSE]
         ELSE [kind |-> "Miss", evict |-> TRUE]

\* fault variant: the result cached under the checksum of the analysed snapshot
StoredChecksum_Snapshot(docs, u, snapshot) == snapshot.checksum

\* the content checksum a finished analysis is cached under
StoredChecksum(docs, u, snapshot) == CurrentChecksum(docs, u)

\* `served` after a report for u: a Full report with a result id answered to a
\* call without previousResultId for a stored document is remembered
Remember(u, noprev, rid, items) ==
    IF noprev /\ rid # NoneId /\ u \in DOMAIN open_docs
    THEN MapInsert(served, u, [result_id |-> rid, items |-> items])
    ELSE served

\* `invoked` after call t has spawned the analyzer on its snapshot doc of u: a
\* call that was queued counts only if its snapshot is still the stored document
Spawned(t, u, doc) ==
    IF task[t].pc = "granted" /\ (u \notin DOMAIN open_docs \/ open_docs[u] # doc)
    THEN invoked
    ELSE MapInsert(invoked, u, IF u \in DOMAIN invoked THEN "again" ELSE "once")

\* -------------------------------------------------------------- locks
\* the RwLocks of PhpmdLanguageServer
Locks == {"open_docs", "results_cache", "rulesets", "phpmd_path", "workspace_root"}

Modes == {"read", "write"}

\* a guard is taken by .read() or .write() ...
Acq(l, m) == [op |-> "acquire", lock |-> l, mode |-> m]

\* ... and dropped at the end of its block or by drop()
Rel(l) == [op |-> "release", lock |-> l, mode |-> "none"]

\* the guards alive after the lock operations ops, starting with held
RECURSIVE HeldAfter(_, _)
HeldAfter(held, ops) ==
    IF ops = <<>> THEN held
    ELSE LET o == Head(ops)
         IN  HeldAfter(IF o.op = "acquire"
                       THEN held \cup {[lock |-> o.lock, mode |-> o.mode]}
                       ELSE {h \in held : h.lock # o.lock},
                       Tail(ops))

\* the guards that ops asks for
Needs(ops) ==
    {[lock |-> ops[i].lock, mode |-> ops[i].mode] :
        i \in {j \in DOMAIN ops : ops[j].op = "acquire"}}

\* a thread asking for the guards in need stalls on a guard some suspended
\* call keeps: readers share a lock, a writer excludes everyone
Blocked(need) ==
    \E t \in Tasks : \E h \in task[t].held : \E n \in need :
        h.lock = n.lock /\ (h.mode = "write" \/ n.mode = "write")

CanRun(ops) == ~Blocked(Needs(ops))

\* fault variant: the analysis runs inside the block of the cache read guard
DiagnosticLocks_GuardKept(evict, fallback) ==
    <<Acq("open_docs", "read"), Rel("open_docs"), Acq("results_cache", "read")>>
    \o (IF evict
        THEN <<Rel("results_cache"), Acq("results_cache", "write"), Rel("results_cache")>>
        ELSE <<>>)
    \o <<Acq("open_docs", "read"), Rel("open_docs")>>
    \o (IF fallback THEN <<Acq("open_docs", "write"), Rel("open_docs")>> ELSE <<>>)

\* diagnostic() up to the call of run_phpmd on a miss: the checksum read
\* (main.rs:1314-1317), the cache lookup and the eviction of a stale entry
\* (1319-1379), the document read (1382-1385) and the disk fallback (1394-1397)
DiagnosticLocks(evict, fallback) ==
    <<Acq("open_docs", "read"), Rel("open_docs"), Acq("results_cache", "read")>>
    \o (IF evict
        THEN <<Rel("results_cache"), Acq("results_cache", "write"), Rel("results_cache")>>
        ELSE <<Rel("results_cache")>>)
    \o <<Acq("open_docs", "read"), Rel("open_docs")>>
    \o (IF fallback THEN <<Acq("open_docs", "write"), Rel("open_docs")>> ELSE <<>>)

\* a lookup answered from the cache (main.rs:1314-1369)
LookupLocks ==
    <<Acq("open_docs", "read"), Rel("open_docs"),
      Acq("results_cache", "read"), Rel("results_cache")>>

\* run_phpmd from the permit to the wait for the subprocess: get_phpmd_path
\* (main.rs:158-197), find_project_root (296-299), should_discover (361-371),
\* discover_rulesets (251-274) and the ruleset argument (422-436)
RunPhpmdLocks(cached, discover) ==
    <<Acq("phpmd_path", "read"), Rel("phpmd_path")>>
    \o (IF cached THEN <<>>
        ELSE <<Acq("workspace_root", "read"), Rel("workspace_root"),
               Acq("phpmd_path", "write"), Rel("phpmd_path")>>)
    \o <<Acq("workspace_root", "read"), Rel("workspace_root"),
         Acq("rulesets", "read"), Rel("rulesets")>>
    \o (IF discover THEN <<Acq("rulesets", "write"), Rel("rulesets")>> ELSE <<>>)
    \o <<Acq("rulesets", "read"), Rel("rulesets")>>

\* the guards of run_phpmd alive at its wait for the subprocess, by path
RunPhpmdGuards ==
    [cached \in BOOLEAN, discover \in BOOLEAN |->
        HeldAfter({}, RunPhpmdLocks(cached, discover))]

\* parse_phpmd_output's reads of the document (main.rs:752, 883), the checksum
\* read and the store (1462-1479)
StoreLocks ==
    <<Acq("open_docs", "read"), Rel("open_docs"),
      Acq("open_docs", "read"), Rel("open_docs"),
      Acq("results_cache", "write"), Rel("results_cache")>>

\* log_memory_stats (main.rs:132-154): the cache is counted inside the block
\* of the document guard
LogMemoryStatsLocks ==
    <<Acq("open_docs", "read"), Acq("results_cache", "read"),
      Rel("results_cache"), Rel("open_docs")>>

\* did_open (main.rs:1211-1231), no statistics logged
DidOpenLocks ==
    <<Acq("open_docs", "write"), Rel("open_docs"),
      Acq("results_cache", "write"), Rel("results_cache"),
      Acq("open_docs", "read"), Rel("open_docs")>>

\* did_open (main.rs:1211-1234) when it logs the statistics after the insert
\* (every 25th document) or after the invalidation (every 10th): each time
\* after drop(docs)
DidOpenLocksLogging(on_insert, on_count) ==
    <<Acq("open_docs", "write"), Rel("open_docs")>>
    \o (IF on_insert THEN LogMemoryStatsLocks ELSE <<>>)
    \o <<Acq("results_cache", "write"), Rel("results_cache"),
         Acq("open_docs", "read"), Rel("open_docs")>>
    \o (IF on_count THEN LogMemoryStatsLocks ELSE <<>>)

\* fault variant: the cache is invalidated before the document is stored
DidChangeLocks_CacheFirst ==
    <<Acq("open_docs", "read"), Rel("open_docs"),
      Acq("results_cache", "write"), Acq("open_docs", "write"),
      Rel("open_docs"), Rel("results_cache")>>

\* did_change (main.rs:1260-1282): the size read, then the write guard of the
\* documents, alive to the end of the block, around the cache invalidation
DidChangeLocks ==
    <<Acq("open_docs", "read"), Rel("open_docs"),
      Acq("open_docs", "write"), Acq("results_cache", "write"),
      Rel("results_cache"), Rel("open_docs")>>

\* did_close (main.rs:1105-1119)
DidCloseLocks ==
    <<Acq("open_docs", "write"), Rel("open_docs"),
      Acq("results_cache", "write"), Rel("results_cache")>>

\* did_change_workspace_folders (main.rs:1129-1136)
WorkspaceFoldersLocks ==
    <<Acq("phpmd_path", "write"), Rel("phpmd_path"),
      Acq("results_cache", "write"), Rel("results_cache")>>

\* did_change_configuration (main.rs:1148-1183)
ConfigurationLocks ==
    <<Acq("phpmd_path", "write"), Rel("phpmd_path"),
      Acq("rulesets", "write"), Rel("rulesets"),
      Acq("results_cache", "write"), Rel("results_cache")>>

\* the worker threads, and one that runs no handler
Threads == 1..NumThreads

IdleThread == [ops |-> <<>>, held |-> {}]

\* ------------------------------------------------------------ actions
Constructed ==
    /\ open_docs = EmptyMap
    /\ results_cache = EmptyMap
    /\ rulesets = "none"
    /\ phpmd_path = "none"
    /\ process_semaphore = [permits |-> PoolSize, waiters |-> <<>>]
    /\ task = [t \in Tasks |-> IdleTask]
    /\ live_children = 0
    /\ temp_files = 0
    /\ reply = NoReply
    /\ served = EmptyMap
    /\ invoked = EmptyMap
    /\ thread = [th \in Threads |-> IdleThread]

Init == Constructed /\ call = NoCall

did_open(u, c) ==
    /\ UNCHANGED <<call, thread>>
    /\ CanRun(DidOpenLocks)
    /\ open_docs' = MapInsert(open_docs, u, compress_document(c))
    /\ results_cache' = MapRemove(results_cache, u)
    /\ served' = MapRemove(served, u)
    /\ invoked' = MapRemove(invoked, u)
    /\ reply' = NoReply
    /\ UNCHANGED <<rulesets, phpmd_path, process_semaphore, task, live_children,
                   temp_files>>

did_change(u, c) ==
    /\ UNCHANGED <<call, thread>>
    /\ CanRun(DidChangeLocks)
    /\ open_docs' = MapInsert(open_docs, u, compress_document(c))
    /\ results_cache' = MapRemove(results_cache, u)
    /\ served' = MapRemove(served, u)
    /\ invoked' = MapRemove(invoked, u)
    /\ reply' = NoReply
    /\ UNCHANGED <<rulesets, phpmd_path, process_semaphore, task, live_children,
                   temp_files>>

did_close(u) ==
    /\ UNCHANGED <<call, thread>>
    /\ CanRun(DidCloseLocks)
    /\ open_docs' = MapRemove(open_docs, u)
    /\ results_cache' = MapRemove(results_cache, u)
    /\ served' = MapRemove(served, u)
    /\ invoked' = MapRemove(invoked, u)
    /\ reply' = NoReply
    /\ UNCHANGED <<rulesets, phpmd_path, process_semaphore, task, live_children,
                   temp_files>>

did_change_workspace_folders ==
    /\ UNCHANGED <<call, thread>>
    /\ CanRun(WorkspaceFoldersLocks)
    /\ phpmd_path' = "none"
    /\ results_cache' = EmptyMap
    /\ served' = EmptyMap
    /\ invoked' = EmptyMap
    /\ reply' = NoReply
    /\ UNCHANGED <<open_docs, rulesets, process_semaphore, task, live_children,
                   temp_files>>

\* new: the rulesets string of the settings, or "none" when they carry none
did_change_configuration(new) ==
    /\ UNCHANGED <<call, thread>>
    /\ CanRun(ConfigurationLocks)
    /\ phpmd_path' = "none"
    /\ rulesets' = IF new # "none" THEN new ELSE rulesets
    /\ results_cache' = EmptyMap
    /\ served' = EmptyMap
    /\ invoked' = EmptyMap
    /\ reply' = NoReply
    /\ UNCHANGED <<open_docs, process_semaphore, task, live_children, temp_files>>

\* run_phpmd from the permit to the wait for the subprocess (main.rs:339-454):
\* sem is the semaphore with the caller's permit taken.  outcome is what the
\* file system and the spawn do: "write_failed", "spawn_failed" or "spawned";
\* found is whether the project root holds a valid config file.
Launch(t, u, doc, noprev, evicted, sem, held, found, outcome) ==
    LET rs == IF ShouldDiscover(rulesets) THEN discover_rulesets(found) ELSE rulesets
        rel == SemRelease(sem)
        ops == RunPhpmdLocks(phpmd_path = "cached", ShouldDiscover(rulesets))
    IN  /\ outcome = "spawned" => temp_files < MaxTempFiles
        /\ CanRun(ops)
        /\ phpmd_path' = "cached"
        /\ rulesets' = rs
        /\ IF outcome = "spawned"
           THEN /\ task' = [task EXCEPT ![t] =
                        [pc |-> "wait", uri |-> u, doc |-> doc,
                         rules |-> RulesetArg(rs), noprev |-> noprev,
                         held |-> held \cup RunPhpmdGuards[phpmd_path = "cached",
                                                            ShouldDiscover(rulesets)]]]
                /\ process_semaphore' = sem
                /\ live_children' = live_children + 1
                /\ temp_files' = temp_files + 1
                /\ reply' = [NoReply EXCEPT !.evicted = evicted]
                /\ invoked' = Spawned(t, u, doc)
           ELSE /\ task' = TasksAfterReturn(t, rel)
                /\ process_semaphore' = [permits |-> rel.permits, waiters |-> rel.waiters]
                /\ UNCHANGED <<live_children, temp_files>>
                /\ reply' = [EmptyReport(u, outcome) EXCEPT !.evicted = evicted]
                /\ UNCHANGED invoked

\* diagnostic() from its start to its first suspension or its return
diagnostic(t, u, prev, disk, found, outcome) ==
    /\ UNCHANGED <<call, thread>>
    /\ task[t].pc = "idle"
    /\ LET look == Lookup(u, prev)
           cache1 == IF look.evict THEN MapRemove(results_cache, u) ELSE results_cache
           docs1 == IF u \notin DOMAIN open_docs /\ disk # NoFile
                    THEN MapInsert(open_docs, u, compress_document(disk))
                    ELSE open_docs
           ops == DiagnosticLocks(look.evict, docs1 # open_docs)
       IN  IF look.kind = "Unchanged"
           THEN /\ CanRun(LookupLocks)
                /\ reply' = UnchangedReport(u, prev, results_cache[u].result_id)
                /\ UNCHANGED <<open_docs, results_cache, rulesets, phpmd_path,
                               process_semaphore, task, live_children, temp_files,
                               served, invoked>>
           ELSE IF look.kind = "Hit"
           THEN /\ CanRun(LookupLocks)
                /\ reply' = FullReport(u, prev, results_cache[u].result_id,
                                       results_cache[u].diagnostics, "hit")
                /\ served' = Remember(u, prev = NoneId, results_cache[u].result_id,
                                      results_cache[u].diagnostics)
                /\ UNCHANGED <<open_docs, results_cache, rulesets, phpmd_path,
                               process_semaphore, task, live_children, temp_files,
                               invoked>>
           ELSE /\ CanRun(ops)
                /\ results_cache' = cache1
                /\ open_docs' = docs1
                /\ UNCHANGED served
                /\ IF u \notin DOMAIN docs1
                   THEN /\ reply' = [EmptyReport(u, "no_document")
                                        EXCEPT !.evicted = look.evict]
                        /\ UNCHANGED <<rulesets, phpmd_path, process_semaphore, task,
                                       live_children, temp_files, invoked>>
                   ELSE IF SemCanAcquire(process_semaphore)
                   THEN Launch(t, u, docs1[u], prev = NoneId, look.evict,
                               SemAcquire(process_semaphore), HeldAfter({}, ops),
                               found, outcome)
                   ELSE /\ task' = [task EXCEPT ![t] =
                                [pc |-> "queued", uri |-> u, doc |-> docs1[u],
                                 rules |-> "none", noprev |-> (prev = NoneId),
                                 held |-> HeldAfter({}, ops)]]
                        /\ process_semaphore' = SemEnqueue(process_semaphore, t)
                        /\ reply' = [NoReply EXCEPT !.evicted = look.evict]
                        /\ UNCHANGED <<rulesets, phpmd_path, live_children, temp_files,
                                       invoked>>

\* a woken waiter returns from acquire().await holding the permit handed to it
resume(t, found, outcome) ==
    /\ UNCHANGED <<call, thread>>
    /\ task[t].pc = "granted"
    /\ Launch(t, task[t].uri, task[t].doc, task[t].noprev, FALSE,
              process_semaphore, task[t].held, found, outcome)
    /\ UNCHANGED <<open_docs, results_cache, served>>

\* the subprocess exits within the deadline: run_phpmd returns Ok(diagnostics)
\* and diagnostic() caches and returns them (main.rs:455-459, 475-515, 1457-1502)
process_exit(t) ==
    /\ UNCHANGED <<call, thread>>
    /\ task[t].pc = "wait"
    /\ LET u == task[t].uri
           version_id == task[t].doc.checksum
           diagnostics == Analyze(decompress_document(task[t].doc), task[t].rules,
                                  RangeText(open_docs, u))
           rel == SemRelease(process_semaphore)
           cached_results ==
               [diagnostics |-> diagnostics, result_id |-> version_id,
                content_checksum |-> StoredChecksum(open_docs, u, task[t].doc)]
       IN  /\ CanRun(StoreLocks)
           /\ live_children' = Reaped(live_children)
           /\ temp_files' = temp_files - 1
           /\ task' = TasksAfterReturn(t, rel)
           /\ process_semaphore' = [permits |-> rel.permits, waiters |-> rel.waiters]
           /\ results_cache' = MapInsert(results_cache, u, cached_results)
           /\ reply' = FullReport(u, NoneId, version_id, diagnostics, "analysis")
           /\ served' = Remember(u, task[t].noprev
                                        /\ version_id = CurrentChecksum(open_docs, u),
                                 version_id, diagnostics)
           /\ UNCHANGED <<open_docs, rulesets, phpmd_path, invoked>>

\* fault variant: a failed run whose empty result is stored like a finished one
FailedRun_CacheEmpty(t, via) ==
    LET rel == SemRelease(process_semaphore)
        u == task[t].uri
    IN  /\ live_children' = KillOnDrop(live_children)
        /\ task' = TasksAfterReturn(t, rel)
        /\ process_semaphore' = [permits |-> rel.permits, waiters |-> rel.waiters]
        /\ reply' = EmptyReport(u, via)
        /\ results_cache' = MapInsert(results_cache, u,
                [diagnostics |-> NoItems, result_id |-> task[t].doc.checksum,
                 content_checksum |-> CurrentChecksum(open_docs, u)])
        /\ UNCHANGED <<open_docs, rulesets, phpmd_path, temp_files, served, invoked>>

\* run_phpmd returns Err after the spawn: the temp file is left where it is
FailedRun(t, via) ==
    LET rel == SemRelease(process_semaphore)
        u == task[t].uri
    IN  /\ live_children' = KillOnDrop(live_children)
        /\ task' = TasksAfterReturn(t, rel)
        /\ process_semaphore' = [permits |-> rel.permits, waiters |-> rel.waiters]
        /\ reply' = EmptyReport(u, via)
        /\ UNCHANGED <<open_docs, results_cache, rulesets, phpmd_path, temp_files,
                       served, invoked>>

\* wait_with_output() fails (main.rs:461-466)
process_io_error(t) ==
    /\ UNCHANGED <<call, thread>>
    /\ task[t].pc = "wait"
    /\ FailedRun(t, "io_error")

\* the 10 s deadline expires first (main.rs:467-472)
process_timeout(t) ==
    /\ UNCHANGED <<call, thread>>
    /\ task[t].pc = "wait"
    /\ FailedRun(t, "timeout")

\* A string as its UTF-8 layout: `ascii` one-byte characters, one character of
\* `width` bytes, and `rest` more one-byte characters.
ByteLen(s) == s.ascii + s.width + s.rest

\* str::is_char_boundary, for n within the string
is_char_boundary(s, n) == n <= s.ascii \/ n >= s.ascii + s.width

\* `if s.len() > limit { format!("{}...", &s[..limit]) } else { s.to_string() }`
\* panics when the slice ends inside a character
LogSlicePanics(s, limit) == ByteLen(s) > limit /\ ~is_char_boundary(s, limit)

\* what the analyzer may print, and the lines a document may hold
Outputs == [ascii : {0, PreviewLimit - 1, PreviewLimit}, width : {1, 3}, rest : {0, 2}]

Lines == [ascii : {0, LineLogLimit - 1, LineLogLimit}, width : {1, 3}, rest : {0, 2}]

\* the subprocess exits within the deadline with stdout raw_output, and
\* run_phpmd panics while logging: in the output preview (main.rs:478-479),
\* before the temp file is removed, or, for a violation on the stored
\* document's line l, in convert_violation_to_diagnostic (main.rs:889-892).
\* Unwinding drops the permit; nothing is cached and no report is returned.
process_exit_panic(t, raw_output, l) ==
    /\ UNCHANGED <<call, thread>>
    /\ task[t].pc = "wait"
    /\ LET preview == LogSlicePanics(raw_output, PreviewLimit)
           logged == task[t].uri \in DOMAIN open_docs /\ LogSlicePanics(l, LineLogLimit)
           rel == SemRelease(process_semaphore)
       IN  /\ preview \/ logged
           /\ live_children' = Reaped(live_children)
           /\ temp_files' = IF preview THEN temp_files ELSE temp_files - 1
           /\ task' = TasksAfterReturn(t, rel)
           /\ process_semaphore' = [permits |-> rel.permits, waiters |-> rel.waiters]
           /\ reply' = [NoReply EXCEPT !.kind = "panic", !.uri = task[t].uri,
                                       !.via = IF preview THEN "output_preview"
                                               ELSE "line_content"]
           /\ UNCHANGED <<open_docs, results_cache, rulesets, phpmd_path, served,
                          invoked>>

\* ------------------------------------------------------ specifications
Active == {t \in Tasks : task[t].pc # "idle"}

\* requests are anonymous: a new call takes the lowest free slot of the table
NextFree(t) == t \in Tasks \ Active /\ \A x \in Tasks \ Active : t <= x

PrevIds == {NoneId} \cup Checksums

Outcomes == {"write_failed", "spawn_failed", "spawned"}

\* The editing session: open, change, close, invalidation and at most MaxActive
\* overlapping pulls; the project has no config file and the settings carry no
\* rulesets.
Next ==
    \/ \E u \in Uris, c \in Contents : did_open(u, c)
    \/ \E u \in Uris, c \in Contents : did_change(u, c)
    \/ \E u \in Uris : did_close(u)
    \/ did_change_workspace_folders
    \/ did_change_configuration("none")
    \/ \E t \in Tasks, u \in Uris, prev \in PrevIds, disk \in Contents \cup {NoFile},
          outcome \in Outcomes :
            /\ NextFree(t)
            /\ Cardinality(Active) < MaxActive
            /\ diagnostic(t, u, prev, disk, FALSE, outcome)
    \/ \E t \in Tasks : process_exit(t)
    \/ \E t \in Tasks : process_io_error(t)
    \/ \E t \in Tasks : process_timeout(t)

Spec == Init /\ [][Next]_vars

\* Sustained load on one unchanged document: any number of overlapping pulls,
\* re-opens that invalidate the cached result, and every outcome of a run.
NextPool ==
    \/ did_open(1, 1)
    \/ \E t \in Tasks, outcome \in Outcomes :
            /\ NextFree(t)
            /\ diagnostic(t, 1, NoneId, NoFile, FALSE, outcome)
    \/ \E t \in Tasks, outcome \in Outcomes : resume(t, FALSE, outcome)
    \/ \E t \in Tasks : process_exit(t)
    \/ \E t \in Tasks : process_io_error(t)
    \/ \E t \in Tasks : process_timeout(t)

PoolSpec == Init /\ [][NextPool]_vars

\* what the runtime does for call t without any further input: the executor
\* polls it once it is woken with a permit, and the deadline timer of its
\* subprocess fires
Scheduled(t) ==
    \/ \E outcome \in Outcomes : resume(t, FALSE, outcome)
    \/ process_timeout(t)

FairPoolSpec == PoolSpec /\ \A t \in Tasks : WF_vars(Scheduled(t))

\* the documents of an editing session over several files
SessionUris == 1..NumSessionUris

\* the rulesets string of a settings change: absent, or given by the user
Settings == {"none", "custom"}

\* An editing session over several documents in a project that may hold a
\* config file: open, change, close, settings and workspace changes, and at most
\* MaxSessionActive pulls at a time whose analyzer exits within the deadline.
NextSession ==
    \/ \E u \in SessionUris, c \in Contents : did_open(u, c)
    \/ \E u \in SessionUris, c \in Contents : did_change(u, c)
    \/ \E u \in SessionUris : did_close(u)
    \/ did_change_workspace_folders
    \/ \E new \in Settings : did_change_configuration(new)
    \/ \E t \in Tasks, u \in SessionUris, found \in BOOLEAN :
            /\ NextFree(t)
            /\ Cardinality(Active) < MaxSessionActive
            /\ diagnostic(t, u, NoneId, NoFile, found, "spawned")
    \/ \E t \in Tasks : process_exit(t)

SessionSpec == Init /\ [][NextSession]_vars

\* ---------------------------------------------------- output pipeline
\* The bytes of analyzer output that extract_json_from_output tells apart; "x"
\* is any other byte.
Chars == {"{", "}", "\"", "\\", "x"}

RECURSIVE SeqsUpTo(_, _)
SeqsUpTo(S, n) ==
    IF n = 0 THEN {<<>>}
    ELSE LET shorter == SeqsUpTo(S, n - 1)
         IN  shorter \cup {Append(q, x) : q \in {r \in shorter : Len(r) = n - 1}, x \in S}

\* str::find: the index of the first ch in output, 0 if there is none
Find(output, ch) ==
    IF \E i \in DOMAIN output : output[i] = ch
    THEN CHOOSE i \in DOMAIN output :
            output[i] = ch /\ \A j \in 1..(i - 1) : output[j] # ch
    ELSE 0

\* the loop of extract_json_from_output from index i on (main.rs:529-561)
RECURSIVE ScanBraces(_, _, _, _, _, _)
ScanBraces(output, start, i, brace_count, in_string, escape_next) ==
    IF i > Len(output) THEN output
    ELSE IF escape_next
    THEN ScanBraces(output, start, i + 1, brace_count, in_string, FALSE)
    ELSE IF output[i] = "\\" /\ in_string
    THEN ScanBraces(output, start, i + 1, brace_count, in_string, TRUE)
    ELSE LET quoted == IF output[i] = "\"" THEN ~in_string ELSE in_string
         IN  IF ~quoted /\ output[i] = "{"
             THEN ScanBraces(output, start, i + 1, brace_count + 1, quoted, FALSE)
             ELSE IF ~quoted /\ output[i] = "}"
             THEN IF brace_count - 1 = 0
                  THEN SubSeq(output, start, i)
                  ELSE ScanBraces(output, start, i + 1, brace_count - 1, quoted, FALSE)
             ELSE ScanBraces(output, start, i + 1, brace_count, quoted, FALSE)

\* fault variant: from the first '{' to the last '}', as the comment at
\* main.rs:520 has it
extract_json_from_output_FirstToLast(output) ==
    LET start == Find(output, "{")
        closers == {i \in DOMAIN output : i > start /\ output[i] = "}"}
    IN  IF start = 0 \/ closers = {} THEN output
        ELSE SubSeq(output, start, CHOOSE i \in closers : \A j \in closers : j <= i)

\* fault variant: the slice starts after the opening brace
extract_json_from_output_Unwrapped(output) ==
    LET start == Find(output, "{")
    IN  IF start = 0 THEN output
        ELSE LET json_str == ScanBraces(output, start, start, 0, FALSE, FALSE)
             IN  IF json_str = output /\ start # 1 THEN output ELSE Tail(json_str)

extract_json_from_output(output) ==
    LET start == Find(output, "{")
    IN  IF start = 0 THEN output
        ELSE ScanBraces(output, start, start, 0, FALSE, FALSE)

\* "DEBUG: starting", newline, {"files":[]}, newline, "DEBUG: done"
NoisyOutput ==
    <<"x", "x", "{", "\"", "x", "\"", "x", "x", "x", "}", "x", "x">>

RawOutputs == SeqsUpTo(Chars, MaxOutputLen) \cup {NoisyOutput}

InitExtract ==
    /\ Constructed
    /\ \E output \in RawOutputs :
            call = [op |-> "extract_json_from_output", output |-> output,
                    returned |-> FALSE, result |-> <<>>]

call_extract_json_from_output ==
    /\ call.op = "extract_json_from_output"
    /\ ~call.returned
    /\ call' = [call EXCEPT !.returned = TRUE,
                            !.result = extract_json_from_output(call.output)]
    /\ UNCHANGED <<open_docs, results_cache, rulesets, phpmd_path, process_semaphore,
                   task, live_children, temp_files, reply, served, invoked, thread>>

ExtractSpec == InitExtract /\ [][call_extract_json_from_output]_vars

\* ---------------------------------------------------- range resolution
\* fault variants: a rule class that is not told apart
CLASS_LEVEL_RULES_None == {}

METHOD_LEVEL_RULES_None == {}

SINGLE_LINE_RULES_None == {}

CLASS_LEVEL_RULES ==
    {"TooManyPublicMethods", "TooManyMethods", "TooManyFields", "ExcessivePublicCount",
     "ExcessiveClassComplexity", "ExcessiveClassLength", "CouplingBetweenObjects",
     "NumberOfChildren", "DepthOfInheritance", "CamelCaseClassName",
     "CamelCasePropertyName", "CamelCaseParameterName", "CamelCaseVariableName"}

PROPERTY_RULES == {"CamelCasePropertyName", "CamelCaseParameterName"}

METHOD_LEVEL_RULES ==
    {"CyclomaticComplexity", "NPathComplexity", "ExcessiveMethodLength",
     "ExcessiveParameterList", "UnusedFormalParameter", "ShortMethodName",
     "ConstructorWithNameAsEnclosingClass", "CamelCaseMethodName"}

\* the rules with an arm of their own in the match at main.rs:788-809
SINGLE_LINE_RULES ==
    {"ElseExpression", "ShortVariable", "LongVariable", "GotoStatement",
     "ExitExpression", "EvalExpression"}

\* `as u32` of a u64 or usize: the value itself below 2^32, which every line
\* number used here is
AsU32(n) == n

\* a numeric field of a violation that is missing, or is not an unsigned number
Absent == -1
WrongType == -2

\* the document is not stored, or does not decompress
NoText == [available |-> FALSE, lines |-> <<>>]

\* content.lines() of the stored document
Text(lines) == [available |-> TRUE, lines |-> lines]

\* Property names, and whether str::contains finds one of "private",
\* "protected", "public", "var", "static" inside the name itself.
Idents == {"legacy_field", "var_count"}

NameHasModifierText(property_name) == property_name = "var_count"

\* A line of the document, as what str::contains and str::starts_with find in
\* it for the property name searched: whether its trimmed text starts with
\* "//", "/*" or "*" (comment); whether it holds "$name" on its own (plain),
\* "$this->name" (this_use), "self::$name" (self_use), "$name =" or "$name="
\* (assigned), "$name;" (terminated); a modifier keyword private, protected,
\* public, var or static (modifier); "function" and "(" (function_sig).  Its
\* measures are the bytes of its leading whitespace (indent) and of the whole
\* line (len).
SourceLines ==
    [comment : BOOLEAN, plain : BOOLEAN, this_use : BOOLEAN, self_use : BOOLEAN,
     assigned : BOOLEAN, terminated : BOOLEAN, modifier : BOOLEAN,
     function_sig : BOOLEAN, indent : {4}, len : {120}]

\* line.contains(&property_with_dollar): every form but "$this->name" holds
\* the text "$name"
ContainsDollarName(line) ==
    line.plain \/ line.self_use \/ line.assigned \/ line.terminated

\* the loop of find_property_line from line line_num (1-based) on
\* (main.rs:653-694): the line number found, 0 for None
RECURSIVE FindFrom(_, _, _)
FindFrom(property_name, lines, line_num) ==
    IF line_num > Len(lines) THEN 0
    ELSE LET line == lines[line_num]
             has_visibility ==
                 line.modifier \/ NameHasModifierText(property_name)
             has_assignment == line.assigned
             has_semicolon == line.terminated
         IN  IF line.comment
             THEN FindFrom(property_name, lines, line_num + 1)
             ELSE IF ~ContainsDollarName(line)
             THEN FindFrom(property_name, lines, line_num + 1)
             ELSE IF line.function_sig
             THEN FindFrom(property_name, lines, line_num + 1)
             ELSE IF line.this_use \/ line.self_use
             THEN FindFrom(property_name, lines, line_num + 1)
             ELSE IF has_visibility \/ has_assignment \/ has_semicolon
             THEN AsU32(line_num)
             ELSE FindFrom(property_name, lines, line_num + 1)

find_property_line(property_name, content) == FindFrom(property_name, content, 1)

\* fault variant: the default arm keeps every span
determine_diagnostic_range_KeepSpan(begin_line, end_line, rule, description, text) ==
    IF rule \in PROPERTY_RULES
    THEN LET actual_line ==
                 IF description \in Idents /\ text.available
                 THEN find_property_line(description, text.lines)
                 ELSE 0
         IN  IF actual_line # 0 THEN <<actual_line, actual_line>>
             ELSE <<begin_line, begin_line>>
    ELSE IF rule \in CLASS_LEVEL_RULES /\ rule \notin PROPERTY_RULES
    THEN <<begin_line, begin_line>>
    ELSE IF rule \in METHOD_LEVEL_RULES /\ end_line > begin_line
            /\ (end_line - begin_line) > 5
    THEN <<begin_line, begin_line>>
    ELSE IF rule \in SINGLE_LINE_RULES
    THEN <<begin_line, begin_line>>
    ELSE <<begin_line, end_line>>

\* determine_diagnostic_range on the text stored for the uri (main.rs:700-822);
\* description is the violation's field: "absent", "wrong_type", or the
\* property name after its first '$' ("none" when it has no '$')
determine_diagnostic_range(begin_line, end_line, rule, description, text) ==
    IF rule \in PROPERTY_RULES
    THEN LET actual_line ==
                 IF description \in Idents /\ text.available
                 THEN find_property_line(description, text.lines)
                 ELSE 0
         IN  IF actual_line # 0 THEN <<actual_line, actual_line>>
             ELSE <<begin_line, begin_line>>
    ELSE IF rule \in CLASS_LEVEL_RULES /\ rule \notin PROPERTY_RULES
    THEN <<begin_line, begin_line>>
    ELSE IF rule \in METHOD_LEVEL_RULES /\ end_line > begin_line
            /\ (end_line - begin_line) > 5
    THEN <<begin_line, begin_line>>
    ELSE IF rule \in SINGLE_LINE_RULES
    THEN <<begin_line, begin_line>>
    ELSE IF end_line > begin_line /\ (end_line - begin_line) > 10
    THEN <<begin_line, begin_line>>
    ELSE <<begin_line, end_line>>

\* fault variant: only priority 1 is an error
Severity_OneIsError(priority) ==
    IF priority = 1 THEN "ERROR"
    ELSE IF priority \in 2..4 THEN "WARNING"
    ELSE "INFORMATION"

\* priority 1-2: error, 3-4: warning, otherwise information (main.rs:859-863)
Severity(priority) ==
    IF priority \in 1..2 THEN "ERROR"
    ELSE IF priority \in 3..4 THEN "WARNING"
    ELSE "INFORMATION"

\* fault variant: the end character is always that of the start line
Columns_StartLineLen(effective_begin_line, effective_end_line, lsp_begin_line, lsp_end_line, text) ==
    IF text.available /\ effective_begin_line <= Len(text.lines)
       /\ effective_begin_line > 0
    THEN LET start_line_content == text.lines[effective_begin_line]
         IN  [start_char |-> start_line_content.indent,
              end_char |-> start_line_content.len]
    ELSE [start_char |-> 0, end_char |-> 999]

\* fault variant: a missing start line is read as an empty one
Columns_NoFallback(effective_begin_line, effective_end_line, lsp_begin_line, lsp_end_line, text) ==
    IF text.available /\ effective_begin_line <= Len(text.lines)
       /\ effective_begin_line > 0
    THEN LET start_line_content == text.lines[effective_begin_line]
         IN  [start_char |-> start_line_content.indent,
              end_char |->
                  IF lsp_begin_line = lsp_end_line
                  THEN start_line_content.len
                  ELSE IF effective_end_line <= Len(text.lines) /\ effective_end_line > 0
                  THEN text.lines[effective_end_line].len
                  ELSE 999]
    ELSE [start_char |-> 0, end_char |-> 0]

\* the character columns (main.rs:883-926): start_line_content.len() -
\* start_line_content.trim_start().len() and the len() of the end line, or
\* (0, 999) when the text or the begin line is missing
Columns(effective_begin_line, effective_end_line, lsp_begin_line, lsp_end_line, text) ==
    IF text.available /\ effective_begin_line <= Len(text.lines)
       /\ effective_begin_line > 0
    THEN LET start_line_content == text.lines[effective_begin_line]
         IN  [start_char |-> start_line_content.indent,
              end_char |->
                  IF lsp_begin_line = lsp_end_line
                  THEN start_line_content.len
                  ELSE IF effective_end_line <= Len(text.lines) /\ effective_end_line > 0
                  THEN text.lines[effective_end_line].len
                  ELSE 999]
    ELSE [start_char |-> 0, end_char |-> 999]

\* fault variant: the subtraction without the test for 0
ToLspLine_Unchecked(line) == line - 1

\* "Convert to 0-based indexing for LSP" (main.rs:875-876)
ToLspLine(line) == IF line > 0 THEN line - 1 ELSE 0

\* Option<Diagnostic>::None
NoDiagnostic == [none |-> TRUE]

\* convert_violation_to_diagnostic (main.rs:824-969).  A text field of the
\* violation is "absent", "wrong_type" or its value; a numeric one is Absent,
\* WrongType or its value.
convert_violation_to_diagnostic(violation, text) ==
    IF violation.beginLine \in {Absent, WrongType} THEN NoDiagnostic
    ELSE IF violation.description \in {"absent", "wrong_type"} THEN NoDiagnostic
    ELSE IF violation.rule = "absent" THEN NoDiagnostic
    ELSE LET begin_line == AsU32(violation.beginLine)
             end_line == IF violation.endLine \in {Absent, WrongType}
                         THEN AsU32(begin_line)
                         ELSE AsU32(violation.endLine)
             rule == IF violation.rule = "wrong_type" THEN "" ELSE violation.rule
             priority == IF violation.priority \in {Absent, WrongType}
                         THEN 3 ELSE violation.priority
             effective == determine_diagnostic_range(begin_line, end_line, rule,
                                                     violation.description, text)
             lsp_begin_line == ToLspLine(effective[1])
             lsp_end_line == ToLspLine(effective[2])
             columns == Columns(effective[1], effective[2], lsp_begin_line,
                                lsp_end_line, text)
         IN  [none |-> FALSE,
              range |-> [start |-> [line |-> lsp_begin_line,
                                    character |-> columns.start_char],
                         end |-> [line |-> lsp_end_line,
                                  character |-> columns.end_char]],
              severity |-> Severity(priority),
              code |-> rule,
              message |-> violation.description]

\* ------------------------------------------------------------ decoding
\* json_output as serde_json sees it: blank, not decodable, or a value whose
\* "files" member is missing, is not an array, or is an array of entries; an
\* entry has a "file" path and a "violations" member that is an array or not.
BlankPayload == [kind |-> "blank", files |-> [kind |-> "absent", entries |-> <<>>]]

UndecodablePayload == [kind |-> "undecodable", files |-> [kind |-> "absent", entries |-> <<>>]]

JsonPayload(files_kind, entries) ==
    [kind |-> "json", files |-> [kind |-> files_kind, entries |-> entries]]

Ok(diagnostics) == [ok |-> TRUE, diagnostics |-> diagnostics]

Err == [ok |-> FALSE, diagnostics |-> <<>>]

\* the loop over one entry's violations (main.rs:626-633)
RECURSIVE ConvertAll(_, _)
ConvertAll(violations, text) ==
    IF violations = <<>> THEN <<>>
    ELSE LET converted == convert_violation_to_diagnostic(Head(violations), text)
         IN  (IF converted.none THEN <<>> ELSE <<converted>>)
             \o ConvertAll(Tail(violations), text)

\* the loop over the file entries (main.rs:611-637)
RECURSIVE ConvertFiles(_, _)
ConvertFiles(files, text) ==
    IF files = <<>> THEN <<>>
    ELSE (IF Head(files).violations.present
          THEN ConvertAll(Head(files).violations.list, text)
          ELSE <<>>)
         \o ConvertFiles(Tail(files), text)

\* fault variant: a payload that does not decode is an error
parse_phpmd_output_DecodeErr(json_output, text) ==
    IF json_output.kind = "blank" THEN Ok(<<>>)
    ELSE IF json_output.kind = "undecodable" THEN Err
    ELSE IF json_output.files.kind = "array"
    THEN Ok(ConvertFiles(json_output.files.entries, text))
    ELSE Ok(<<>>)

\* fault variant: only the first file entry is read
parse_phpmd_output_FirstFile(json_output, text) ==
    IF json_output.kind = "blank" THEN Ok(<<>>)
    ELSE IF json_output.kind = "undecodable" THEN Ok(<<>>)
    ELSE IF json_output.files.kind = "array"
    THEN Ok(ConvertFiles(IF Len(json_output.files.entries) = 0 THEN <<>>
                         ELSE <<json_output.files.entries[1]>>, text))
    ELSE Ok(<<>>)

\* parse_phpmd_output (main.rs:569-644) on the text stored for the uri
parse_phpmd_output(json_output, text) ==
    IF json_output.kind = "blank" THEN Ok(<<>>)
    ELSE IF json_output.kind = "undecodable" THEN Ok(<<>>)
    ELSE IF json_output.files.kind = "array"
    THEN Ok(ConvertFiles(json_output.files.entries, text))
    ELSE Ok(<<>>)

\* payloads that hold no file list
UnusablePayloads ==
    {BlankPayload, UndecodablePayload, JsonPayload("absent", <<>>),
     JsonPayload("not_array", <<>>)}

\* the subprocess exits within the deadline and prints json_output, which
\* holds no file list, so that no text is consulted: run_phpmd returns what
\* parse_phpmd_output returns
\* (main.rs:485-498, 515), and diagnostic() caches and returns an Ok result
\* (main.rs:1457-1502)
process_exit_unparsed(t, json_output) ==
    /\ UNCHANGED <<call, thread>>
    /\ task[t].pc = "wait"
    /\ LET u == task[t].uri
           version_id == task[t].doc.checksum
           parsed == parse_phpmd_output(json_output, NoText)
           rel == SemRelease(process_semaphore)
           cached_results ==
               [diagnostics |-> NoItems, result_id |-> version_id,
                content_checksum |-> StoredChecksum(open_docs, u, task[t].doc)]
       IN  /\ CanRun(StoreLocks)
           /\ live_children' = Reaped(live_children)
           /\ temp_files' = temp_files - 1
           /\ task' = TasksAfterReturn(t, rel)
           /\ process_semaphore' = [permits |-> rel.permits, waiters |-> rel.waiters]
           /\ IF parsed.ok
              THEN /\ results_cache' = MapInsert(results_cache, u, cached_results)
                   /\ reply' = FullReport(u, NoneId, version_id, NoItems, "analysis")
                   /\ served' = Remember(u, task[t].noprev
                                                /\ version_id = CurrentChecksum(open_docs, u),
                                         version_id, NoItems)
              ELSE /\ reply' = EmptyReport(u, "parse_error")
                   /\ UNCHANGED <<results_cache, served>>
           /\ UNCHANGED <<open_docs, rulesets, phpmd_path, invoked>>

\* the server runs until a handler panics
Serving == reply.kind # "panic"

\* The editing session of Next with an analyzer that prints arbitrary output
\* for documents with arbitrary lines.
NextCrash ==
    \/ \E u \in Uris, c \in Contents : Serving /\ did_open(u, c)
    \/ \E u \in Uris, c \in Contents : Serving /\ did_change(u, c)
    \/ \E u \in Uris : Serving /\ did_close(u)
    \/ Serving /\ did_change_workspace_folders
    \/ Serving /\ did_change_configuration("none")
    \/ \E t \in Tasks, u \in Uris, prev \in PrevIds, disk \in Contents \cup {NoFile},
          outcome \in Outcomes :
            /\ Serving
            /\ NextFree(t)
            /\ Cardinality(Active) < MaxActive
            /\ diagnostic(t, u, prev, disk, FALSE, outcome)
    \/ \E t \in Tasks : Serving /\ process_exit(t)
    \/ \E t \in Tasks, raw_output \in Outputs, l \in Lines :
            Serving /\ process_exit_panic(t, raw_output, l)
    \/ \E t \in Tasks, json_output \in UnusablePayloads :
            Serving /\ process_exit_unparsed(t, json_output)
    \/ \E t \in Tasks : Serving /\ process_io_error(t)
    \/ \E t \in Tasks : Serving /\ process_timeout(t)

CrashSpec == Init /\ [][NextCrash]_vars

\* ----------------------------------------------------- parsing alone
\* a violation the analyzer reports on one line, all fields in place
Violation(line, rule) ==
    [beginLine |-> line, endLine |-> line, description |-> "none", rule |-> rule,
     priority |-> 3]

\* violation records: two complete ones, and one for each field that
\* convert_violation_to_diagnostic reads with `?`, missing or of the wrong type
ParseViolations ==
    {Violation(3, "ShortVariable"), Violation(5, "ShortVariable"),
     [Violation(3, "ShortVariable") EXCEPT !.beginLine = Absent],
     [Violation(3, "ShortVariable") EXCEPT !.beginLine = WrongType],
     [Violation(3, "ShortVariable") EXCEPT !.description = "absent"],
     [Violation(3, "ShortVariable") EXCEPT !.description = "wrong_type"],
     Violation(3, "absent"), Violation(3, "wrong_type")}

\* the "file" member of an entry: the temp file analysed, or another path
Paths == {"temp", "other"}

FileEntries ==
    {[file |-> path, violations |-> [present |-> TRUE, list |-> list]] :
        path \in Paths, list \in SeqsUpTo(ParseViolations, MaxViolations)}
    \cup {[file |-> path, violations |-> [present |-> FALSE, list |-> <<>>]] :
            path \in Paths}

\* a document of five lines that hold no property name
PlainLine ==
    [comment |-> FALSE, plain |-> FALSE, this_use |-> FALSE, self_use |-> FALSE,
     assigned |-> FALSE, terminated |-> FALSE, modifier |-> FALSE,
     function_sig |-> FALSE, indent |-> 4, len |-> 120]

PlainText == Text(<<PlainLine, PlainLine, PlainLine, PlainLine, PlainLine>>)

ParseCall(json_output, text) ==
    [op |-> "parse_phpmd_output", json_output |-> json_output, text |-> text,
     returned |-> FALSE, result |-> Ok(<<>>)]

InitParse ==
    /\ Constructed
    /\ \E text \in {NoText, PlainText} :
        \/ \E json_output \in UnusablePayloads : call = ParseCall(json_output, text)
        \/ \E n \in 0..MaxFiles : \E entries \in [1..n -> FileEntries] :
                call = ParseCall(JsonPayload("array", entries), text)

call_parse_phpmd_output ==
    /\ call.op = "parse_phpmd_output"
    /\ ~call.returned
    /\ call' = [call EXCEPT !.returned = TRUE,
                            !.result = parse_phpmd_output(call.json_output, call.text)]
    /\ UNCHANGED <<open_docs, results_cache, rulesets, phpmd_path, process_semaphore,
                   task, live_children, temp_files, reply, served, invoked, thread>>

ParseSpec == InitParse /\ [][call_parse_phpmd_output]_vars

\* ------------------------------------------------- one violation alone
\* rule names the analyzer reports: those the server knows, one it does not,
\* none, and a rule member that is not a string
RuleNames ==
    {"TooManyPublicMethods", "TooManyMethods", "TooManyFields", "ExcessivePublicCount",
     "ExcessiveClassComplexity", "ExcessiveClassLength", "CouplingBetweenObjects",
     "NumberOfChildren", "DepthOfInheritance", "CamelCaseClassName",
     "CamelCasePropertyName", "CamelCaseParameterName", "CamelCaseVariableName",
     "CyclomaticComplexity", "NPathComplexity", "ExcessiveMethodLength",
     "ExcessiveParameterList", "UnusedFormalParameter", "ShortMethodName",
     "ConstructorWithNameAsEnclosingClass", "CamelCaseMethodName",
     "ElseExpression", "ShortVariable", "LongVariable", "GotoStatement",
     "ExitExpression", "EvalExpression",
     "UnusedPrivateField", "", "wrong_type"}

\* beginLine and endLine as reported: every pair of small lines, one of them
\* possibly 0, the end possibly missing or before the begin, and two long spans
LinePairs ==
    ((0..MaxLine) \X ((0..MaxLine) \cup {Absent})) \cup {<<10, 50>>, <<3, 40>>}

Priorities == {1, 3, 5}

\* the payload of an analyzer that reports one violation for the temp file
OneViolation(violation) ==
    JsonPayload("array",
        <<[file |-> "temp", violations |-> [present |-> TRUE, list |-> <<violation>>]]>>)

InitRange ==
    /\ Constructed
    /\ \E pair \in LinePairs, rule \in RuleNames, priority \in Priorities,
          text \in {NoText, PlainText} :
            call = ParseCall(OneViolation([beginLine |-> pair[1], endLine |-> pair[2],
                                           description |-> "none", rule |-> rule,
                                           priority |-> priority]),
                             text)

RangeSpec == InitRange /\ [][call_parse_phpmd_output]_vars

\* ------------------------------------------- a property violation alone
\* the longest document whose lines are enumerated
MaxDocLines == 2

\* "private $legacy_field;"
DeclarationLine ==
    [PlainLine EXCEPT !.terminated = TRUE, !.modifier = TRUE]

\* a document of seven lines with the declaration on the last
ExampleText ==
    Text(<<PlainLine, PlainLine, PlainLine, PlainLine, PlainLine, PlainLine,
           DeclarationLine>>)

\* the lines that follow the first line of an enumerated document
LaterLines == {PlainLine, DeclarationLine}

\* no document, the empty one, the one of seven lines, and every document of
\* up to MaxDocLines lines that starts with any line and goes on with LaterLines
PropertyTexts ==
    {NoText, Text(<<>>), ExampleText}
    \cup {Text(<<first>> \o rest) :
            first \in SourceLines, rest \in SeqsUpTo(LaterLines, MaxDocLines - 1)}

\* beginLine and endLine of a property violation: the class declaration the
\* analyzer reports it at
PropertyLinePairs == {<<1, 1>>, <<3, 9>>}

InitProperty ==
    /\ Constructed
    /\ \E pair \in PropertyLinePairs, rule \in PROPERTY_RULES,
          description \in Idents \cup {"none"}, text \in PropertyTexts :
            call = ParseCall(OneViolation([beginLine |-> pair[1], endLine |-> pair[2],
                                           description |-> description, rule |-> rule,
                                           priority |-> 1]),
                             text)

PropertySpec == InitProperty /\ [][call_parse_phpmd_output]_vars

\* ------------------------------------------------- character columns
\* the longest line and the longest document measured
MaxLineLen == 2
MaxColumnLines == 2

\* lines by their measures: every length up to MaxLineLen with every run of
\* leading whitespace, the whitespace-only and the empty line included
MeasuredLines ==
    UNION {{[PlainLine EXCEPT !.indent = indent, !.len = len] : indent \in 0..len} :
                len \in 0..MaxLineLen}

\* no document, and every document of up to MaxColumnLines measured lines
ColumnTexts ==
    {NoText} \cup {Text(lines) : lines \in SeqsUpTo(MeasuredLines, MaxColumnLines)}

\* lines reported: 0, inside and past the longest document, the end line
\* possibly missing or before the begin line
ColumnLinePairs ==
    (0..(MaxColumnLines + 1)) \X ((0..(MaxColumnLines + 1)) \cup {Absent})

\* one rule of each way to resolve a span
ColumnRules == {"UnusedPrivateField", "ShortVariable", "TooManyMethods"}

InitColumns ==
    /\ Constructed
    /\ \E pair \in ColumnLinePairs, rule \in ColumnRules, text \in ColumnTexts :
            call = ParseCall(OneViolation([beginLine |-> pair[1], endLine |-> pair[2],
                                           description |-> "none", rule |-> rule,
                                           priority |-> 3]),
                             text)

ColumnSpec == InitColumns /\ [][call_parse_phpmd_output]_vars

\* ------------------------------------------------------- severities
\* the largest priority reported
MaxPriority == 7

\* the "priority" member: missing, not an unsigned number, or a number
ReportedPriorities == {Absent, WrongType} \cup (0..MaxPriority)

InitSeverity ==
    /\ Constructed
    /\ \E priority \in ReportedPriorities, rule \in RuleNames,
          text \in {NoText, PlainText} :
            call = ParseCall(OneViolation([Violation(1, rule) EXCEPT
                                               !.priority = priority]),
                             text)

SeveritySpec == InitSeverity /\ [][call_parse_phpmd_output]_vars

\* ------------------------------------------- the editor extension
\* const PHPMD_CONFIG_FILES (lib.rs:6), in the order find_phpmd_config tries
PHPMD_CONFIG_FILES == <<"phpmd.xml", "phpmd.xml.dist", ".phpmd.xml">>

\* file names in a worktree root
RootFileNames ==
    {".phpmd.xml", "phpmd.xml", ".phpmd.xml.dist", "phpmd.xml.dist", "ruleset.xml",
     "composer.json", "index.php"}

\* the loop of find_phpmd_config from entry i on (lib.rs:291-301): the first
\* name of PHPMD_CONFIG_FILES that exists in the root, "none" for None
RECURSIVE FindConfigFrom(_, _)
FindConfigFrom(root, i) ==
    IF i > Len(PHPMD_CONFIG_FILES) THEN "none"
    ELSE IF PHPMD_CONFIG_FILES[i] \in root THEN PHPMD_CONFIG_FILES[i]
    ELSE FindConfigFrom(root, i + 1)

find_phpmd_config(worktree) == FindConfigFrom(worktree, 1)

InitConfig ==
    /\ Constructed
    /\ \E worktree \in SUBSET RootFileNames :
            call = [op |-> "find_phpmd_config", worktree |-> worktree,
                    returned |-> FALSE, result |-> "none"]

call_find_phpmd_config ==
    /\ call.op = "find_phpmd_config"
    /\ ~call.returned
    /\ call' = [call EXCEPT !.returned = TRUE,
                            !.result = find_phpmd_config(call.worktree)]
    /\ UNCHANGED <<open_docs, results_cache, rulesets, phpmd_path, process_semaphore,
                   task, live_children, temp_files, reply, served, invoked, thread>>

ConfigSpec == InitConfig /\ [][call_find_phpmd_config]_vars

\* ------------------------------------------- handlers on worker threads
\* the lock operations of one stretch of synchronous handler code: a
\* notification handler, or diagnostic() between two of its await points
HandlerLocks ==
    {DidOpenLocks, DidChangeLocks, DidCloseLocks, WorkspaceFoldersLocks,
     ConfigurationLocks, LookupLocks, StoreLocks}
    \cup {DidOpenLocksLogging(on_insert, on_count) :
            on_insert \in BOOLEAN, on_count \in BOOLEAN}
    \cup {DiagnosticLocks(evict, fallback) : evict \in BOOLEAN, fallback \in BOOLEAN}
    \cup {RunPhpmdLocks(cached, discover) : cached \in BOOLEAN, discover \in BOOLEAN}

\* the guards on lock l that the threads of set ths hold
GuardsOn(l, ths) == UNION {{h \in thread[th].held : h.lock = l} : th \in ths}

\* the lock operation thread th makes next
NextOp(th) == Head(thread[th].ops)

\* thread th is inside write() on lock l
WaitsToWrite(th, l) ==
    /\ thread[th].ops # <<>>
    /\ NextOp(th) = Acq(l, "write")

\* std::sync::RwLock grants a write guard when no guard is out, and a read
\* guard when no write guard is out
Grants(l, mode) ==
    IF mode = "write" THEN GuardsOn(l, Threads) = {}
    ELSE \A h \in GuardsOn(l, Threads) : h.mode = "read"

\* an RwLock that prefers writers also keeps a reader waiting while another
\* thread waits to write
GrantsBehindWriters(th, l, mode) ==
    /\ Grants(l, mode)
    /\ mode = "read" => \A other \in Threads \ {th} : ~WaitsToWrite(other, l)

\* a thread starts a stretch of handler code
handler_begin(th, ops) ==
    /\ thread[th].ops = <<>>
    /\ thread' = [thread EXCEPT ![th].ops = ops]
    /\ UNCHANGED <<open_docs, results_cache, rulesets, phpmd_path, process_semaphore,
                   task, live_children, temp_files, reply, served, invoked, call>>

\* .read() or .write() returns its guard
lock_acquire(th) ==
    /\ thread[th].ops # <<>>
    /\ NextOp(th).op = "acquire"
    /\ Grants(NextOp(th).lock, NextOp(th).mode)
    /\ thread' = [thread EXCEPT ![th] =
                    [ops |-> Tail(thread[th].ops),
                     held |-> HeldAfter(thread[th].held, <<NextOp(th)>>)]]
    /\ UNCHANGED <<open_docs, results_cache, rulesets, phpmd_path, process_semaphore,
                   task, live_children, temp_files, reply, served, invoked, call>>

\* a guard goes out of scope or is dropped
lock_release(th) ==
    /\ thread[th].ops # <<>>
    /\ NextOp(th).op = "release"
    /\ thread' = [thread EXCEPT ![th] =
                    [ops |-> Tail(thread[th].ops),
                     held |-> HeldAfter(thread[th].held, <<NextOp(th)>>)]]
    /\ UNCHANGED <<open_docs, results_cache, rulesets, phpmd_path, process_semaphore,
                   task, live_children, temp_files, reply, served, invoked, call>>

NextLocks ==
    \/ \E th \in Threads, ops \in HandlerLocks : handler_begin(th, ops)
    \/ \E th \in Threads : lock_acquire(th)
    \/ \E th \in Threads : lock_release(th)

LockSpec == Init /\ [][NextLocks]_vars

\* --------------------------------------------------------------- claims
\* a diagnostic() call for u with previousResultId prev is made in this step
Pull(t, u, prev) ==
    /\ NextFree(t)
    /\ reply'.uri = u \/ task'[t].uri = u
    /\ \E disk \in Contents \cup {NoFile}, found \in BOOLEAN, outcome \in Outcomes :
            diagnostic(t, u, prev, disk, found, outcome)

\* the cached entry of u was computed against the stored document
Valid(u) ==
    /\ u \in DOMAIN results_cache
    /\ u \in DOMAIN open_docs
    /\ results_cache[u].content_checksum = open_docs[u].checksum

\* u has a cached entry that the stored document does not match, or no document
Stale(u) == u \in DOMAIN results_cache /\ ~Valid(u)

\* run_phpmd was entered by the step just taken by task t
AnalysisStarted(t) ==
    \/ task'[t].pc \in {"queued", "wait"}
    \/ reply'.via \in {"write_failed", "spawn_failed"}

\* C1: every CachedResult's diagnostics were computed from content whose
\* checksum is the entry's stored content checksum, so a result computed from a
\* superseded text X is never cached (and served) under the checksum of X'.
C1_CachedUnderAnalysedChecksum ==
    \A u \in DOMAIN results_cache :
        results_cache[u].content_checksum = Checksum(results_cache[u].diagnostics.src)

\* C2: the lookup answers Unchanged only for a supplied previousResultId that
\* equals the result id of an entry whose checksum is the stored document's;
\* with matching checksums and an absent or different previousResultId it
\* answers Full with the cached diagnostics and result id; the cache is not
\* modified in either case.
C2_LookupOutcome ==
    [][\A t \in Tasks, u \in Uris, prev \in PrevIds :
        Pull(t, u, prev) =>
            /\ reply'.kind = "Unchanged" =>
                 /\ prev # NoneId
                 /\ Valid(u)
                 /\ prev = results_cache[u].result_id
                 /\ reply'.result_id = results_cache[u].result_id
            /\ (Valid(u) /\ prev # NoneId /\ prev = results_cache[u].result_id) =>
                 reply'.kind = "Unchanged"
            /\ (Valid(u) /\ (prev = NoneId \/ prev # results_cache[u].result_id)) =>
                 /\ reply'.kind = "Full"
                 /\ reply'.items = results_cache[u].diagnostics
                 /\ reply'.result_id = results_cache[u].result_id
            /\ Valid(u) => results_cache' = results_cache]_vars

C2_Witness ==
    /\ reply.kind = "Unchanged"
    /\ reply.uri \in DOMAIN results_cache
    /\ reply.prev = results_cache[reply.uri].result_id

C4_CacheIdempotence ==
    [][\A t \in Tasks, u \in Uris, prev \in PrevIds :
        (Pull(t, u, prev) /\ u \in DOMAIN served /\ u \in DOMAIN open_docs) =>
            /\ prev = NoneId =>
                 /\ reply'.kind = "Full"
                 /\ reply'.items = served[u].items
                 /\ reply'.result_id = served[u].result_id
            /\ prev = served[u].result_id =>
                 /\ reply'.kind = "Unchanged"
                 /\ reply'.result_id = served[u].result_id]_vars

\* C5: a CachedResult carries the checksum of a text only while that text is
\* the stored document: once change(id, X') has replaced X, no entry for id
\* carries checksum(X) until X is stored again.
C5_NoSupersededChecksum ==
    \A u \in DOMAIN results_cache, c \in Contents :
        results_cache[u].content_checksum = Checksum(c) =>
            (u \in DOMAIN open_docs /\ open_docs[u].content = c)

\* an analysis started before a change has stored its result after it
C5_Witness ==
    \E u \in DOMAIN results_cache :
        /\ u \in DOMAIN open_docs
        /\ results_cache[u].diagnostics.src # open_docs[u].content
        /\ reply.via = "analysis"

\* the pulls that hold a permit: woken with one, or waiting for their subprocess
Holders == {t \in Tasks : task[t].pc \in {"granted", "wait"}}

\* the pulls suspended in timeout(.., child.wait_with_output())
Running == {t \in Tasks : task[t].pc = "wait"}

\* C6: at most 4 analyzer subprocesses are alive at any time, however many
\* pulls are pending; a pull waits in the semaphore queue only while no permit
\* is free, and leaves the queue only in a step in which a holder returns.
C6_ConcurrencyBound ==
    /\ [](/\ live_children <= PoolSize
          /\ \A t \in Tasks : task[t].pc = "queued" =>
                /\ process_semaphore.permits = 0
                /\ \E i \in 1..Len(process_semaphore.waiters) :
                        process_semaphore.waiters[i] = t)
    /\ [][\A t \in Tasks :
            (task[t].pc = "queued" /\ task'[t].pc # "queued") =>
                /\ task'[t].pc = "granted"
                /\ \E h \in Holders : task'[h].pc = "idle"]_vars

\* four subprocesses alive and more than four pulls pending
C6_Witness ==
    /\ live_children = PoolSize
    /\ Len(process_semaphore.waiters) = NumTasks - PoolSize

\* C7: every permit is either free or held by a pull inside run_phpmd, on
\* every exit path, so permits are neither leaked nor released twice, and all
\* 4 are free when no run_phpmd call is in progress.
C7_SlotReleased ==
    /\ process_semaphore.permits + Cardinality(Holders) = PoolSize
    /\ process_semaphore.permits \in 0..PoolSize
    /\ Active = {} => process_semaphore.permits = PoolSize

\* the pool was exhausted, a run has just failed, and all permits are back
C7_Witness ==
    /\ reply.via \in {"timeout", "io_error", "spawn_failed", "write_failed"}
    /\ Active = {}
    /\ temp_files >= PoolSize
    /\ process_semaphore.permits = PoolSize

\* C8: the temp files that exist are those of the runs in progress, so none
\* remains once run_phpmd has returned.
C8_TempFileDeleted == temp_files = Cardinality(Running)

\* C9: a pull waiting in the semaphore queue is eventually granted a permit:
\* it leaves the queue only with a permit, and it is never left in the queue
\* for ever, while new pulls keep joining the queue behind it.
C9_NoStarvation ==
    /\ [][\A t \in Tasks :
            (task[t].pc = "queued" /\ task'[t].pc # "queued") =>
                task'[t].pc = "granted"]_vars
    /\ \A t \in Tasks : []<>(task[t].pc # "queued")

\* a pull waits in the queue while another has just been granted a permit
C9_Witness ==
    /\ Len(process_semaphore.waiters) >= 1
    /\ \E t \in Tasks : task[t].pc = "granted"
    /\ live_children = PoolSize - 1

\* C10: a run that has spawned the analyzer is never left waiting for it for
\* ever: it returns on the exit of the subprocess, on an I/O error or on the
\* deadline; and the subprocesses alive are those of the runs still waiting, so
\* none survives the run that spawned it.
C10_RunTerminates ==
    /\ [](live_children = Cardinality(Running))
    /\ \A t \in Tasks : []<>(task[t].pc # "wait")

\* a run has ended on its deadline while another is still waiting
C10_Witness ==
    /\ reply.via = "timeout"
    /\ Running # {}
    /\ live_children = Cardinality(Running)

\* the reports of a run_phpmd call that returned Err
FailureVias == {"write_failed", "spawn_failed", "io_error", "timeout"}

\* C11: a call whose run fails (temp-file write, spawn, process I/O error or
\* timeout) returns Full with no items and no result identifier and adds or
\* replaces no cache entry, and no cache entry ever holds the empty result of a
\* failure, so the next call for the same content is not served one.
C11_FailureNotCached ==
    /\ [](\A u \in DOMAIN results_cache : results_cache[u].diagnostics # NoItems)
    /\ [][reply'.via \in FailureVias =>
            /\ reply'.kind = "Full"
            /\ reply'.items = NoItems
            /\ reply'.result_id = NoneId
            /\ \A u \in DOMAIN results_cache' :
                    u \in DOMAIN results_cache /\ results_cache'[u] = results_cache[u]]_vars

\* a run has timed out and its document is left without a cache entry
C11_Witness ==
    /\ reply.via = "timeout"
    /\ reply.uri \in DOMAIN open_docs
    /\ reply.uri \notin DOMAIN results_cache

\* C12: for a document whose content does not change and with no invalidation
\* event, the analyzer is spawned at most once, however many calls are made
\* and whether or not they overlap.
C12_AnalyzedOnce == \A u \in DOMAIN invoked : invoked[u] = "once"

\* C13: a call answered from the cache (Hit or Unchanged) takes no permit,
\* writes no temp file, spawns no subprocess and leaves the documents, the
\* cache and the calls in progress as they were; a call whose lookup finds a
\* valid entry is answered from the cache, so only a Miss enters run_phpmd.
C13_HitHasNoEffect ==
    [][/\ reply'.via \in {"hit", "unchanged"} =>
            UNCHANGED <<open_docs, results_cache, rulesets, phpmd_path,
                        process_semaphore, task, live_children, temp_files>>
       /\ \A t \in Tasks, u \in Uris, prev \in PrevIds :
            (Pull(t, u, prev) /\ Valid(u)) =>
                /\ reply'.via \in {"hit", "unchanged"}
                /\ ~AnalysisStarted(t)]_vars

\* a call is answered from the cache while an analysis of the same document
\* holds a permit and waits for its subprocess
C13_Witness ==
    /\ reply.via = "hit"
    /\ \E t \in Tasks : task[t].pc = "wait" /\ task[t].uri = reply.uri

\* the result identifiers a client can hold: that of the entry in the cache and
\* that of the report just returned
KnownIds(u) ==
    (IF u \in DOMAIN results_cache THEN {results_cache[u].result_id} ELSE {})
        \cup (IF reply.uri = u THEN {reply.result_id} ELSE {})

\* C14: the result identifier stored with a finished analysis differs from
\* every identifier issued earlier, in particular from the identifier of the
\* entry it replaces and from the identifier of the report returned just before.
C14_FreshResultId ==
    [][\A t \in Tasks :
        process_exit(t) =>
            results_cache'[task[t].uri].result_id \notin KnownIds(task[t].uri)]_vars

\* a settings change or a workspace change is handled in this step
Invalidation ==
    \/ did_change_workspace_folders
    \/ \E new \in Settings : did_change_configuration(new)

\* C15: when a settings change or a workspace change has been handled, the
\* cache holds no entry, no analyzer path is cached, and the rulesets are
\* either those the settings gave or will be resolved again by the next
\* analysis: a config file discovered earlier is not reused.
C15_InvalidateAll ==
    [][Invalidation =>
        /\ results_cache' = EmptyMap
        /\ phpmd_path' = "none"
        /\ ShouldDiscover(rulesets') \/ rulesets' = "custom"]_vars

\* C16: close(id) destroys the Document and the CachedResult of id for good:
\* an id without a stored Document (an entry is only ever stored by a call that
\* found one, so it was closed since) has no entry in the cache, whatever
\* analyses were in flight when it was closed.
C16_ClosedHoldsNothing == \A u \in DOMAIN results_cache : u \in DOMAIN open_docs

\* what map m holds for key k
Entry(m, k) == IF k \in DOMAIN m THEN {m[k]} ELSE {}

\* C17: open, change and close of u leave the Document and the CachedResult of
\* every other document as they were, and open and change of u always leave u
\* without a CachedResult.
C17_OnlyOwnDocument ==
    [][\A u \in SessionUris :
        /\ ((\E c \in Contents : did_open(u, c) \/ did_change(u, c)) \/ did_close(u)) =>
                \A v \in SessionUris \ {u} :
                    /\ Entry(open_docs', v) = Entry(open_docs, v)
                    /\ Entry(results_cache', v) = Entry(results_cache, v)
        /\ (\E c \in Contents : did_open(u, c) \/ did_change(u, c)) =>
                u \notin DOMAIN results_cache']_vars

\* a document has just been opened or changed while another keeps its result
C17_Witness ==
    /\ reply = NoReply
    /\ Active = {}
    /\ \E u \in SessionUris : \E v \in SessionUris \ {u} :
            /\ u \in DOMAIN open_docs
            /\ u \notin DOMAIN results_cache
            /\ v \in DOMAIN results_cache
            /\ v \in DOMAIN open_docs

\* C18: the stored Document of u is the content of the open or change
\* notification for u that arrived last: each notification replaces whatever
\* was stored, and between notifications no other step (a pull, a finishing
\* analysis, an invalidation) alters or removes a stored Document, so an older
\* content never overwrites a newer one.
C18_LastStoredWins ==
    [][\A u \in SessionUris :
        /\ \A c \in Contents :
                (did_open(u, c) \/ did_change(u, c)) =>
                    Entry(open_docs', u) = {compress_document(c)}
        /\ (u \in DOMAIN open_docs /\ Entry(open_docs', u) # Entry(open_docs, u)) =>
                \/ did_close(u)
                \/ \E c \in Contents : did_open(u, c) \/ did_change(u, c)]_vars

\* a change has replaced the text that an analysis in flight was started on
C18_Witness ==
    /\ reply = NoReply
    /\ \E t \in Tasks :
            /\ task[t].pc = "wait"
            /\ task[t].uri \in DOMAIN open_docs
            /\ open_docs[task[t].uri] # task[t].doc

\* C19: a call suspended in acquire().await or in the wait for its subprocess
\* keeps no guard of open_docs, results_cache, rulesets or phpmd_path, so no
\* handler asking for any of these locks in any mode stalls on an analysis in
\* flight.
C19_NoLockAcrossSuspension ==
    /\ \A t \in Tasks :
            task[t].pc \in {"queued", "granted", "wait"} => task[t].held = {}
    /\ \A l \in Locks, m \in Modes : ~Blocked({[lock |-> l, mode |-> m]})

\* did_open has been handled while one call waits for a slot and another for
\* its subprocess
C19_Witness ==
    /\ reply = NoReply
    /\ invoked = EmptyMap
    /\ \E t \in Tasks : task[t].pc = "queued"
    /\ \E t \in Tasks : task[t].pc = "wait"

\* C20: whatever the stores hold and whatever the analyzer does, a pull ends
\* with a report (Unchanged or Full, possibly empty) or is still in progress:
\* no step of the pull path ends in a panic.
C20_PullNeverPanics == reply.kind \in {"none", "Unchanged", "Full"}

\* C21: the ranges of every cached or reported Diagnostic are resolved on the
\* content that was analysed: the text searched for the property declaration
\* and measured for the columns is the text the analyzer was run on, also when
\* the document was changed or closed while the analysis was in flight.
C21_RangeFromAnalysedContent ==
    /\ \A u \in DOMAIN results_cache :
            results_cache[u].diagnostics.text = results_cache[u].diagnostics.src
    /\ reply.items.text = reply.items.src

\* what each byte of output from the first '{' on is: a structural brace, or
\* a byte of a double-quoted string literal (its quotes included), in which a
\* backslash takes the next byte with it; other bytes do not matter
Lexed(output, start) ==
    LET lex[i \in (start - 1)..Len(output)] ==
            IF i = start - 1 THEN [in_string |-> FALSE, escaping |-> FALSE, kind |-> "none"]
            ELSE LET before == lex[i - 1]
                 IN  IF before.escaping
                     THEN [in_string |-> TRUE, escaping |-> FALSE, kind |-> "literal"]
                     ELSE IF before.in_string
                     THEN [in_string |-> output[i] # "\"",
                           escaping |-> output[i] = "\\", kind |-> "literal"]
                     ELSE [in_string |-> output[i] = "\"", escaping |-> FALSE,
                           kind |-> IF output[i] = "\"" THEN "literal"
                                    ELSE IF output[i] = "{" THEN "open"
                                    ELSE IF output[i] = "}" THEN "close"
                                    ELSE "other"]
    IN  lex

\* brace depth after byte i, counting structural braces only
Depth(output, start, i) ==
    LET lex == Lexed(output, start)
    IN  Cardinality({j \in start..i : lex[j].kind = "open"})
        - Cardinality({j \in start..i : lex[j].kind = "close"})

C23_ParseNeverFails ==
    [][\A t \in Tasks, json_output \in UnusablePayloads :
        process_exit_unparsed(t, json_output) =>
            /\ parse_phpmd_output(json_output, NoText) = Ok(<<>>)
            /\ reply'.kind = "Full"
            /\ reply'.items = NoItems
            /\ reply'.result_id = task[t].doc.checksum
            /\ reply'.result_id # NoneId
            /\ reply'.via \notin FailureVias
            /\ task[t].uri \in DOMAIN results_cache'
            /\ results_cache'[task[t].uri].result_id = reply'.result_id
            /\ results_cache'[task[t].uri].diagnostics = NoItems]_vars

\* an empty result of an analysis is in the cache and was just returned
C23_Witness ==
    /\ reply.kind = "Full"
    /\ reply.via = "analysis"
    /\ reply.items = NoItems
    /\ reply.uri \in DOMAIN results_cache
    /\ results_cache[reply.uri].diagnostics = NoItems
    /\ results_cache[reply.uri].result_id = reply.result_id

\* a violation record has the fields that a Diagnostic needs: beginLine as an
\* unsigned number, description as a string, and a rule member
HasRequiredFields(violation) ==
    /\ violation.beginLine \notin {Absent, WrongType}
    /\ violation.description \notin {"absent", "wrong_type"}
    /\ violation.rule # "absent"

\* the places <<file entry, violation>> of the records of a file list that
\* have the required fields
Places(entries) ==
    {place \in (DOMAIN entries) \X (1..MaxViolations + 1) :
        /\ entries[place[1]].violations.present
        /\ place[2] \in DOMAIN entries[place[1]].violations.list
        /\ HasRequiredFields(entries[place[1]].violations.list[place[2]])}

\* payload order: file entries in order, violations in order within each
Precedes(p, q) == p[1] < q[1] \/ (p[1] = q[1] /\ p[2] <= q[2])

\* C24: parse_phpmd_output returns, in payload order, one Diagnostic for every
\* violation record of every file entry that has the required fields, whatever
\* path the entry names and whether or not the record repeats another; a record
\* without them is skipped and the others are kept.
C24_FlattenAllFiles ==
    (call.op = "parse_phpmd_output" /\ call.returned
     /\ call.json_output.kind = "json" /\ call.json_output.files.kind = "array") =>
        LET entries == call.json_output.files.entries
            places == Places(entries)
            diagnostics == call.result.diagnostics
        IN  /\ call.result.ok
            /\ Len(diagnostics) = Cardinality(places)
            /\ \A place \in places :
                diagnostics[Cardinality({q \in places : Precedes(q, place)})] =
                    convert_violation_to_diagnostic(
                        entries[place[1]].violations.list[place[2]], call.text)

\* two entries for different paths, one with a record without a rule between
\* its complete ones and one repeating a record of the other, gave three
\* Diagnostics
C24_Witness ==
    /\ call.op = "parse_phpmd_output"
    /\ call.returned
    /\ call.json_output.kind = "json"
    /\ Len(call.json_output.files.entries) = 2
    /\ call.json_output.files.entries[1].file # call.json_output.files.entries[2].file
    /\ call.json_output.files.entries[1].violations.list =
            <<Violation(3, "absent"), Violation(5, "ShortVariable")>>
    /\ call.json_output.files.entries[2].violations.list =
            <<Violation(5, "ShortVariable"), Violation(3, "ShortVariable")>>
    /\ Len(call.result.diagnostics) = 3

\* the violation of a call that parsed a payload with one violation, and the
\* lines of the one Diagnostic returned
Reported == call.json_output.files.entries[1].violations.list[1]

Resolved ==
    <<call.result.diagnostics[1].range.start.line,
      call.result.diagnostics[1].range.end.line>>

\* a payload with one violation has been parsed into one Diagnostic
ResolvedOne ==
    /\ call.op = "parse_phpmd_output"
    /\ call.returned
    /\ call.json_output.kind = "json"
    /\ Len(call.json_output.files.entries) = 1
    /\ call.json_output.files.entries[1].violations.present
    /\ Len(call.json_output.files.entries[1].violations.list) = 1
    /\ Len(call.result.diagnostics) = 1

\* C25: a violation of a class-level rule with beginLine b >= 1 resolves to
\* line b alone (b - 1 in the 0-based Diagnostic), whatever its endLine.
C25_ClassLevelCollapses ==
    (/\ ResolvedOne
     /\ Reported.rule \in
            {"TooManyPublicMethods", "TooManyMethods", "TooManyFields",
             "ExcessivePublicCount", "ExcessiveClassComplexity", "ExcessiveClassLength",
             "CouplingBetweenObjects", "NumberOfChildren", "DepthOfInheritance",
             "CamelCaseClassName", "CamelCaseVariableName"}
     /\ Reported.beginLine >= 1)
        => Resolved = <<Reported.beginLine - 1, Reported.beginLine - 1>>

\* a class-level violation spanning lines 10-50 was resolved to line 10
C25_Witness ==
    /\ ResolvedOne
    /\ Reported.rule = "ExcessiveClassLength"
    /\ Reported.beginLine = 10
    /\ Reported.endLine = 50
    /\ Resolved = <<9, 9>>

\* a line that declares the property: it holds "$name", is no comment, no
\* function signature, no "$this->name" or "self::$name" use, and shows a
\* modifier, an assignment to the name or a ';' after it
Declares(line) ==
    /\ ContainsDollarName(line)
    /\ ~line.comment
    /\ ~line.function_sig
    /\ ~line.this_use
    /\ ~line.self_use
    /\ line.modifier \/ line.assigned \/ line.terminated

\* the 1-based line a property violation belongs on
DeclaredAt(description, text, begin) ==
    IF description \in Idents /\ text.available
       /\ \E i \in 1..Len(text.lines) : Declares(text.lines[i])
    THEN CHOOSE i \in 1..Len(text.lines) :
            /\ Declares(text.lines[i])
            /\ \A j \in 1..(i - 1) : ~Declares(text.lines[j])
    ELSE begin

\* C26: a violation of CamelCasePropertyName or CamelCaseParameterName resolves
\* to the first line of the document that declares the identifier named in its
\* description, and to its own begin line when no line does, when the
\* description names no identifier, or when the document is unavailable.
C26_PropertyLine ==
    (/\ ResolvedOne
     /\ Reported.rule \in {"CamelCasePropertyName", "CamelCaseParameterName"})
        => LET line == DeclaredAt(Reported.description, call.text, Reported.beginLine)
           IN  Resolved = <<line - 1, line - 1>>

\* the end line a violation reports: its endLine, or its beginLine without one
ReportedEnd ==
    IF Reported.endLine = Absent THEN Reported.beginLine ELSE Reported.endLine

\* a reported span as the 0-based lines of a Diagnostic
Emitted(begin, end) ==
    <<IF begin >= 1 THEN begin - 1 ELSE 0, IF end >= 1 THEN end - 1 ELSE 0>>

\* C27: a violation of a method-level rule whose span exceeds 5 lines
\* (endLine - beginLine > 5) resolves to its begin line alone, and otherwise
\* keeps its span; a complexity violation at lines 3-40 with priority 3 gives
\* exactly one Diagnostic, a Warning on line 3 alone.
C27_MethodLevelSpan ==
    /\ (/\ ResolvedOne
        /\ Reported.rule \in
               {"CyclomaticComplexity", "NPathComplexity", "ExcessiveMethodLength",
                "ExcessiveParameterList", "UnusedFormalParameter", "ShortMethodName",
                "ConstructorWithNameAsEnclosingClass", "CamelCaseMethodName"})
            => Resolved = IF ReportedEnd - Reported.beginLine > 5
                          THEN Emitted(Reported.beginLine, Reported.beginLine)
                          ELSE Emitted(Reported.beginLine, ReportedEnd)
    /\ (/\ call.op = "parse_phpmd_output"
        /\ call.returned
        /\ call.json_output =
               OneViolation([Violation(3, "CyclomaticComplexity") EXCEPT !.endLine = 40]))
            => /\ Len(call.result.diagnostics) = 1
               /\ call.result.diagnostics[1].severity = "WARNING"
               /\ Resolved = <<2, 2>>

\* a method-level violation spanning exactly 5 lines more than its begin line
\* kept its span
C27_Witness ==
    /\ ResolvedOne
    /\ Reported.rule = "ExcessiveMethodLength"
    /\ Reported.beginLine = 4
    /\ Reported.endLine = 9
    /\ Resolved = <<3, 8>>

\* C28: a violation of a single-line rule resolves to its begin line alone,
\* whatever span it reports.
C28_SingleLineCollapses ==
    (/\ ResolvedOne
     /\ Reported.rule \in
            {"ElseExpression", "ShortVariable", "LongVariable", "GotoStatement",
             "ExitExpression", "EvalExpression"})
        => Resolved = Emitted(Reported.beginLine, Reported.beginLine)

\* a single-line violation reported over three lines was resolved to the first
C28_Witness ==
    /\ ResolvedOne
    /\ Reported.rule = "ElseExpression"
    /\ Reported.beginLine = 6
    /\ Reported.endLine = 8
    /\ Resolved = <<5, 5>>

\* the class that resolves a rule, trying property, class, method, single-line
\* and default in this order
RuleClass(rule) ==
    IF rule \in {"CamelCasePropertyName", "CamelCaseParameterName"} THEN "property"
    ELSE IF rule \in
            {"TooManyPublicMethods", "TooManyMethods", "TooManyFields",
             "ExcessivePublicCount", "ExcessiveClassComplexity", "ExcessiveClassLength",
             "CouplingBetweenObjects", "NumberOfChildren", "DepthOfInheritance",
             "CamelCaseClassName", "CamelCaseVariableName"} THEN "class"
    ELSE IF rule \in
            {"CyclomaticComplexity", "NPathComplexity", "ExcessiveMethodLength",
             "ExcessiveParameterList", "UnusedFormalParameter", "ShortMethodName",
             "ConstructorWithNameAsEnclosingClass", "CamelCaseMethodName"} THEN "method"
    ELSE IF rule \in
            {"ElseExpression", "ShortVariable", "LongVariable", "GotoStatement",
             "ExitExpression", "EvalExpression"} THEN "single_line"
    ELSE "default"

\* C29: a violation of any other rule, an unknown or an empty rule name
\* included, resolves to its begin line alone when its span exceeds 10 lines
\* (endLine - beginLine > 10) and keeps its span otherwise; every violation is
\* resolved as the first class in the order property, class, method,
\* single-line, default that holds its rule resolves it.
C29_DefaultSpan ==
    ResolvedOne =>
        LET class == RuleClass(IF Reported.rule = "wrong_type" THEN "" ELSE Reported.rule)
            begin == Reported.beginLine
            collapsed == Emitted(begin, begin)
            kept == Emitted(begin, ReportedEnd)
        IN  /\ class = "default" =>
                    Resolved = IF ReportedEnd - begin > 10 THEN collapsed ELSE kept
            /\ class \in {"class", "single_line"} => Resolved = collapsed
            /\ class = "property" => Resolved[1] = Resolved[2]
            /\ class = "method" =>
                    Resolved = IF ReportedEnd - begin > 5 THEN collapsed ELSE kept

\* a violation of an unknown rule spanning exactly 10 lines more than its
\* begin line kept its span
C29_Witness ==
    /\ ResolvedOne
    /\ Reported.rule = "UnusedPrivateField"
    /\ Reported.beginLine = 2
    /\ Reported.endLine = 12
    /\ Resolved = <<1, 11>>

\* C30: the Diagnostic's lines are the resolved 1-based lines minus one, and a
\* resolved line of 0 gives line 0: no line of a Diagnostic is below 0 or
\* wraps around.
C30_ZeroBasedLines ==
    ResolvedOne =>
        LET violation == Reported
            resolved ==
                determine_diagnostic_range(
                    violation.beginLine, ReportedEnd,
                    IF violation.rule = "wrong_type" THEN "" ELSE violation.rule,
                    violation.description, call.text)
        IN  /\ resolved[1] >= 1 => Resolved[1] = resolved[1] - 1
            /\ resolved[2] >= 1 => Resolved[2] = resolved[2] - 1
            /\ resolved[1] = 0 => Resolved[1] = 0
            /\ resolved[2] = 0 => Resolved[2] = 0
            /\ Resolved[1] >= 0 /\ Resolved[2] >= 0

\* a violation reported at line 0 was given line 0
C30_Witness ==
    /\ ResolvedOne
    /\ Reported.beginLine = 0
    /\ Reported.endLine = 0
    /\ Resolved = <<0, 0>>

\* the Diagnostic's (start character, end character)
Characters ==
    <<call.result.diagnostics[1].range.start.character,
      call.result.diagnostics[1].range["end"].character>>

\* the 1-based lines the violation was resolved to
Effective ==
    determine_diagnostic_range(
        Reported.beginLine, ReportedEnd,
        IF Reported.rule = "wrong_type" THEN "" ELSE Reported.rule,
        Reported.description, call.text)

\* line n (1-based) is a line of the document
Exists(n) == call.text.available /\ n \in 1..Len(call.text.lines)

\* C31: when the resolved start and end lines exist in the document, the start
\* character is the count of leading whitespace of the start line and the end
\* character is the length of the end line; on one line the start character is
\* at most the end character, and equal to it exactly when the line is empty
\* or all whitespace.
C31_CharacterBounds ==
    (/\ ResolvedOne
     /\ Exists(Effective[1])
     /\ Exists(Effective[2]))
        => LET start_line == call.text.lines[Effective[1]]
               end_line == call.text.lines[Effective[2]]
           IN  /\ Characters = <<start_line.indent, end_line.len>>
               /\ Effective[1] = Effective[2] =>
                    /\ Characters[1] <= Characters[2]
                    /\ Characters[1] = Characters[2]
                            <=> start_line.indent = start_line.len

\* a span over two existing lines took the indent of the first and the length
\* of the second
C31_Witness ==
    /\ ResolvedOne
    /\ Reported.rule = "UnusedPrivateField"
    /\ Reported.beginLine = 1
    /\ Reported.endLine = 2
    /\ call.text.available
    /\ Len(call.text.lines) = 2
    /\ call.text.lines[1].indent = 1
    /\ call.text.lines[1].len = 2
    /\ call.text.lines[2].len = 0
    /\ Characters = <<1, 0>>

\* C32 as stated: when the resolved start line or the resolved end line lies
\* outside the document, or the document is not stored, the Diagnostic has
\* start character 0 and end character 999, and the violation is reported.
C32_FallbackForEitherLine ==
    (/\ call.op = "parse_phpmd_output"
     /\ call.returned)
        => /\ ResolvedOne
           /\ (~Exists(Effective[1]) \/ ~Exists(Effective[2]))
                => Characters = <<0, 999>>

\* C32: the violation is always reported.  When the resolved start line lies
\* outside the document, or the document is not stored, the Diagnostic has
\* start character 0 and end character 999.  When only the resolved end line
\* lies outside the document, the start character is the count of leading
\* whitespace of the start line, and the end character is 999, or the length
\* of the start line when the Diagnostic starts and ends on the same line.
C32_FallbackPerLine ==
    (/\ call.op = "parse_phpmd_output"
     /\ call.returned)
        => /\ ResolvedOne
           /\ ~Exists(Effective[1]) => Characters = <<0, 999>>
           /\ (Exists(Effective[1]) /\ ~Exists(Effective[2]))
                => LET start_line == call.text.lines[Effective[1]]
                   IN  Characters =
                           <<start_line.indent,
                             IF Resolved[1] = Resolved[2] THEN start_line.len ELSE 999>>

\* a span that starts on the only line of the document and ends past it kept
\* the indent of its start line
C32_Witness ==
    /\ ResolvedOne
    /\ Reported.rule = "UnusedPrivateField"
    /\ Reported.beginLine = 1
    /\ Reported.endLine = 2
    /\ call.text.available
    /\ Len(call.text.lines) = 1
    /\ call.text.lines[1].indent = 1
    /\ Characters = <<1, 999>>

C34_DocumentsFromOpenOrChange ==
    [][open_docs' # open_docs =>
            \/ \E u \in Uris, c \in Contents :
                    /\ did_open(u, c) \/ did_change(u, c)
                    /\ u \in DOMAIN open_docs'
                    /\ decompress_document(open_docs'[u]) = c
            \/ \E u \in Uris : did_close(u)]_vars

\* C35: the recognised configuration file names hold each of ".phpmd.xml",
\* "phpmd.xml", ".phpmd.xml.dist", "phpmd.xml.dist" and "ruleset.xml", so that
\* find_phpmd_config finds a configuration in every worktree root that holds
\* one of them.
C35_ConfigFileNames ==
    LET config_files ==
            {".phpmd.xml", "phpmd.xml", ".phpmd.xml.dist", "phpmd.xml.dist",
             "ruleset.xml"}
    IN  (/\ call.op = "find_phpmd_config"
         /\ call.returned)
            => /\ \A file \in config_files :
                    \E i \in 1..Len(PHPMD_CONFIG_FILES) : PHPMD_CONFIG_FILES[i] = file
               /\ call.worktree \cap config_files # {}
                    => call.result \in call.worktree \cap config_files

\* C36: in every reachable state the keys of the Result Cache are keys of the
\* Content Store: whatever the order of opens, changes, closes and analyses
\* that finish, no uri has a cached result without a Document.
C36_CacheKeysInStore == DOMAIN results_cache \subseteq DOMAIN open_docs

\* C37: no diagnostics computed under superseded settings are served: once a
\* settings change has put an explicit ruleset in force, every report answered
\* from the Result Cache carries diagnostics computed under that ruleset.
C37_ServedUnderCurrentSettings ==
    (/\ rulesets = "custom"
     /\ reply.kind = "Full"
     /\ reply.via = "hit")
        => reply.items.rules = "custom"

\* C38: the range of every Diagnostic is well formed: its start position
\* (line, character) is not after its end position, whatever beginLine and
\* endLine the violation reports.
C38_WellFormedRange ==
    ResolvedOne =>
        \/ Resolved[1] < Resolved[2]
        \/ /\ Resolved[1] = Resolved[2]
           /\ Characters[1] <= Characters[2]

\* thread th is inside a handler and can make its next lock operation, even
\* when the locks keep readers behind waiting writers
CanStep(th) ==
    /\ thread[th].ops # <<>>
    /\ NextOp(th).op = "acquire"
            => GrantsBehindWriters(th, NextOp(th).lock, NextOp(th).mode)

\* C39: no thread asks for the Content Store lock while it holds a guard of
\* the Result Cache, no thread asks for the write lock of a lock it holds a
\* guard of, and whenever some thread is inside a handler some thread can make
\* its next lock operation: the handlers never wait on each other forever.
C39_DeadlockFree ==
    /\ \A th \in Threads :
            (/\ thread[th].ops # <<>>
             /\ NextOp(th).op = "acquire"
             /\ NextOp(th).lock = "open_docs")
                => GuardsOn("results_cache", {th}) = {}
    /\ \A th \in Threads : \A l \in Locks :
            WaitsToWrite(th, l) => GuardsOn(l, {th}) = {}
    /\ (\E th \in Threads : thread[th].ops # <<>>)
            => \E th \in Threads : CanStep(th)

\* did_change holds the write guards of both maps while another thread waits
\* for the documents
C39_Witness ==
    \E th \in Threads, other \in Threads :
        /\ [lock |-> "open_docs", mode |-> "write"] \in thread[th].held
        /\ [lock |-> "results_cache", mode |-> "write"] \in thread[th].held
        /\ thread[other].ops # <<>>
        /\ NextOp(other) = Acq("open_docs", "read")
        /\ ~CanStep(other)

\* C40: extracting twice gives what extracting once gives, and what is
\* extracted is the raw output itself or a contiguous part of it that begins
\* with '{' and ends with '}'.
C40_ExtractIdempotent ==
    (/\ call.op = "extract_json_from_output"
     /\ call.returned)
        => /\ extract_json_from_output(call.result) = call.result
           /\ \/ call.result = call.output
              \/ /\ \E i \in DOMAIN call.output, j \in DOMAIN call.output :
                        call.result = SubSeq(call.output, i, j)
                 /\ call.result # <<>>
                 /\ call.result[1] = "{"
                 /\ call.result[Len(call.result)] = "}"

\* a nested object was cut out of the noise around it, and extracting it again
\* leaves it as it is
C40_Witness ==
    /\ call.op = "extract_json_from_output"
    /\ call.returned
    /\ call.output = <<"x", "{", "{", "}", "}", "}">>
    /\ call.result = <<"{", "{", "}", "}">>
    /\ extract_json_from_output(call.result) = call.result

====
